---- MODULE Spec2Model ----
(***************************************************************************)
(* Tiny Search Engine: the inverted index (common/index.c) and the querier *)
(* (querier/querier.c).  Strings are sequences of one-character strings,   *)
(* counters_t objects live in a heap addressed by integers, NULL is 0.     *)
(***************************************************************************)
EXTENDS Integers, Sequences, FiniteSets, Bags, TLC

(***************************************************************************)
(* Bounds of the model                                                     *)
(***************************************************************************)
\* document identifiers range over 1..MaxDoc
MaxDoc == 2
\* counts stored in an index file range over 1..MaxCount
MaxCount == 2
\* an index file holds at most MaxPostings (word, docID, count) triples
MaxPostings == 3
\* a token sequence handed to queryEvaluate holds at most MaxQueryWords search words
MaxQueryWords == 3
\* a raw query line is built from at most MaxLineAtoms atoms
MaxLineAtoms == 4
\* a given standard input holds at most MaxLines lines
MaxLines == 2
\* each of them built from at most MaxInputAtoms atoms
MaxInputAtoms == 3
\* the indexer performs at most MaxInserts index_insert calls
MaxInserts == 3
\* the HTML of a page holds at most MaxPageWords words
MaxPageWords == 2
\* the lines of single letters and blanks hold at most MaxShortLine characters
MaxShortLine == 5
\* a page of the site holds at most MaxLinks links
MaxLinks == 2
\* the crawler is given a maxDepth of at most MaxMaxDepth
MaxMaxDepth == 2

NULL == 0

(***************************************************************************)
(* Characters and strings (<ctype.h>, <string.h>)                          *)
(***************************************************************************)
LowerAlpha ==
  <<"a","b","c","d","e","f","g","h","i","j","k","l","m",
    "n","o","p","q","r","s","t","u","v","w","x","y","z">>

UpperAlpha ==
  <<"A","B","C","D","E","F","G","H","I","J","K","L","M",
    "N","O","P","Q","R","S","T","U","V","W","X","Y","Z">>

UpperSet == {UpperAlpha[k] : k \in 1..26}
LowerSet == {LowerAlpha[k] : k \in 1..26}

isupper(c) == c \in UpperSet

isalpha(c) == c \in UpperSet \/ c \in LowerSet

isspace(c) == c \in {" ", "\t", "\n", "\r", "\f"}

\* tolower leaving upper-case letters as they are
tolower_identity(c) == c

tolower(c) ==
  IF isupper(c) THEN LowerAlpha[CHOOSE k \in 1..26 : UpperAlpha[k] = c] ELSE c

\* strcmp(a, b) == 0
streq(a, b) == a = b

AND == <<"a","n","d">>
OR == <<"o","r">>

\* the words the model's index files and queries are written with
Cat == <<"c","a","t">>
Dog == <<"d","o","g">>
Emu == <<"e","m","u">>
IndexWordSeq == <<Cat, Dog, Emu>>
IndexWords == {IndexWordSeq[k] : k \in DOMAIN IndexWordSeq}

Docs == 1..MaxDoc
Counts == 1..MaxCount

(***************************************************************************)
(* Small utilities of the model                                            *)
(***************************************************************************)
Min2(a, b) == IF a < b THEN a ELSE b

MinOf(S) == CHOOSE x \in S : \A y \in S : x <= y

RECURSIVE SumOver(_, _)
SumOver(f, S) ==
  IF S = {} THEN 0
  ELSE LET x == CHOOSE y \in S : TRUE IN f[x] + SumOver(f, S \ {x})

RECURSIVE Flatten(_)
Flatten(ss) == IF ss = <<>> THEN <<>> ELSE Head(ss) \o Flatten(Tail(ss))

\* every sequence over S of length at most n
SeqsUpTo(S, n) == UNION {[1..k -> S] : k \in 0..n}

\* every enumeration of the finite set S without repetition
Orders(S) ==
  {o \in [1..Cardinality(S) -> S] : \A x \in S : \E k \in DOMAIN o : o[k] = x}

(***************************************************************************)
(* counters_t (libcs50): a heap object mapping integer keys to counts.     *)
(* A heap is a function from the live addresses to such mappings.          *)
(***************************************************************************)
MaxAddr == 8
Addrs == 1..MaxAddr

NoCounters == <<>>

\* malloc returns some address that is not live: the lowest one
NewAddr(h) == MinOf(Addrs \ DOMAIN h)

\* counters_new: an empty object at the address p, which was not live
counters_new(h, p) == [a \in DOMAIN h \cup {p} |->
                         IF a \in DOMAIN h THEN h[a] ELSE NoCounters]

\* counters_delete: the object stops being live
counters_delete(h, p) ==
  IF p = NULL THEN h ELSE [a \in DOMAIN h \ {p} |-> h[a]]

\* counters_get: the count of key, 0 when the key is absent
counters_get(h, p, key) ==
  IF p = NULL THEN 0
  ELSE IF key \in DOMAIN h[p] THEN h[p][key] ELSE 0

\* counters_set: overwrite or create the entry of key
counters_set(h, p, key, count) ==
  IF p = NULL \/ key < 0 \/ count < 0 THEN h
  ELSE [h EXCEPT ![p] = [k \in DOMAIN h[p] \cup {key} |->
                           IF k = key THEN count ELSE h[p][k]]]

\* counters_add: increment the entry of key, creating it with count 1
counters_add(h, p, key) ==
  IF p = NULL \/ key < 0 THEN h
  ELSE counters_set(h, p, key, counters_get(h, p, key) + 1)

\* the keys counters_iterate visits
counters_keys(h, p) == IF p = NULL THEN {} ELSE DOMAIN h[p]

(***************************************************************************)
(* index_t (common/index.c): a hashtable from words to counters addresses. *)
(* An index value is a function whose domain is the set of stored words;   *)
(* operations take and return a record [ix, heap].                         *)
(***************************************************************************)
NoIndex == <<>>

hashtable_find(ix, word) == IF word \in DOMAIN ix THEN ix[word] ELSE NULL

hashtable_insert(ix, word, p) ==
  IF word \in DOMAIN ix THEN ix
  ELSE [w \in DOMAIN ix \cup {word} |-> IF w = word THEN p ELSE ix[w]]

\* index_new: an empty hashtable; num_slots only sizes it
index_new(num_slots) == [ix |-> NoIndex, heap |-> <<>>]

index_find(ix, word) == hashtable_find(ix, word)

\* the address malloc gives the counters of a word new to the index: any
\* address that is not live will do, and the k-th word of the model gets k
NewWordAddr(h, word) ==
  LET own == {k \in DOMAIN IndexWordSeq : IndexWordSeq[k] = word /\ k \notin DOMAIN h}
  IN IF own # {} THEN MinOf(own) ELSE NewAddr(h)

\* index_insert creating the counters of the word before it looks at docID
index_insert_eager(st, word, docID) ==
  LET found == hashtable_find(st.ix, word)
      ctrs  == IF found = NULL THEN NewWordAddr(st.heap, word) ELSE found
      h1    == IF found = NULL THEN counters_new(st.heap, ctrs) ELSE st.heap
      ix1   == IF found = NULL THEN hashtable_insert(st.ix, word, ctrs) ELSE st.ix
  IN [ix |-> ix1, heap |-> counters_add(h1, ctrs, docID)]

index_insert(st, word, docID) ==
  IF docID < 0 THEN st
  ELSE LET found == hashtable_find(st.ix, word)
           ctrs  == IF found = NULL THEN NewWordAddr(st.heap, word) ELSE found
           h1    == IF found = NULL THEN counters_new(st.heap, ctrs) ELSE st.heap
           ix1   == IF found = NULL THEN hashtable_insert(st.ix, word, ctrs) ELSE st.ix
       IN [ix |-> ix1, heap |-> counters_add(h1, ctrs, docID)]

\* index_set adding count to the count it finds
index_set_sum(st, word, docID, count) ==
  IF docID < 0 \/ count < 0 THEN st
  ELSE LET found == hashtable_find(st.ix, word)
           ctrs  == IF found = NULL THEN NewWordAddr(st.heap, word) ELSE found
           h1    == IF found = NULL THEN counters_new(st.heap, ctrs) ELSE st.heap
           ix1   == IF found = NULL THEN hashtable_insert(st.ix, word, ctrs) ELSE st.ix
       IN [ix |-> ix1,
           heap |-> counters_set(h1, ctrs, docID, counters_get(h1, ctrs, docID) + count)]

index_set(st, word, docID, count) ==
  IF docID < 0 \/ count < 0 THEN st
  ELSE LET found == hashtable_find(st.ix, word)
           ctrs  == IF found = NULL THEN NewWordAddr(st.heap, word) ELSE found
           h1    == IF found = NULL THEN counters_new(st.heap, ctrs) ELSE st.heap
           ix1   == IF found = NULL THEN hashtable_insert(st.ix, word, ctrs) ELSE st.ix
       IN [ix |-> ix1, heap |-> counters_set(h1, ctrs, docID, count)]

(***************************************************************************)
(* The index file: a sequence of lines, each a sequence of tokens that     *)
(* fprintf separated by blanks.  fscanf skips blanks and newlines alike,   *)
(* so index_load reads the flattened token stream.                         *)
(***************************************************************************)
WordTok(w) == [kind |-> "word", word |-> w, num |-> 0]
IntTok(n) == [kind |-> "int", word |-> <<>>, num |-> n]

DigitChars == <<"0","1","2","3","4","5","6","7","8","9">>

RECURSIVE Digits(_)
Digits(n) ==
  IF n < 0 THEN <<"-">> \o Digits(0 - n)
  ELSE IF n < 10 THEN <<DigitChars[n + 1]>>
  ELSE Digits(n \div 10) \o <<DigitChars[(n % 10) + 1]>>

\* the characters fscanf("%s") stores for a token
TokenText(tok) == IF tok.kind = "int" THEN Digits(tok.num) ELSE tok.word

file_numLines(file) == Len(file)

\* index_load reads each word with fscanf(fp, "%s", word) into char word[256]
WordBufferSize == 256

\* a file holds a word that does not fit the buffer with its terminator
Overlong(file) ==
  \E k \in DOMAIN Flatten(file) :
     /\ Flatten(file)[k].kind = "word"
     /\ Len(TokenText(Flatten(file)[k])) >= WordBufferSize

\* save_index_counts over the keys of one counters object, in the order ko
RECURSIVE save_index_counts(_, _, _)
save_index_counts(h, p, ko) ==
  IF ko = <<>> THEN <<>>
  ELSE <<IntTok(Head(ko)), IntTok(h[p][Head(ko)])>> \o save_index_counts(h, p, Tail(ko))

save_index_word(h, key, item, ko) == <<WordTok(key)>> \o save_index_counts(h, item, ko)

\* index_save: hashtable_iterate visits the words in the order wo and
\* counters_iterate visits the keys of word w in the order ko[w]
RECURSIVE index_save(_, _, _)
index_save(st, wo, ko) ==
  IF wo = <<>> THEN <<>>
  ELSE <<save_index_word(st.heap, Head(wo), st.ix[Head(wo)], ko[Head(wo)])>>
         \o index_save(st, Tail(wo), ko)

\* every iteration order index_save may meet on the index st
SaveOrders(st) ==
  LET per == [w \in DOMAIN st.ix |-> Orders(DOMAIN st.heap[st.ix[w]])]
  IN [wo : Orders(DOMAIN st.ix),
      ko : {k \in [DOMAIN st.ix -> UNION {per[w] : w \in DOMAIN st.ix}] :
              \A w \in DOMAIN st.ix : k[w] \in per[w]}]

\* the inner loop of index_load: while (fscanf(fp, "%d %d", ...) == 2)
RECURSIVE LoadPairs(_, _, _)
LoadPairs(st, word, toks) ==
  IF Len(toks) >= 2 /\ toks[1].kind = "int" /\ toks[2].kind = "int"
  THEN CHOOSE r \in {LoadPairs(s, word, t) :
                        s \in {index_set(st, word, toks[1].num, toks[2].num)},
                        t \in {SubSeq(toks, 3, Len(toks))}} : TRUE
  ELSE [st |-> st,
        rest |-> IF Len(toks) >= 1 /\ toks[1].kind = "int" THEN Tail(toks) ELSE toks]

\* the outer loop of index_load: while (fscanf(fp, "%s", word) == 1)
RECURSIVE LoadWords(_, _)
LoadWords(st, toks) ==
  IF toks = <<>> THEN st
  ELSE CHOOSE l \in {LoadWords(r.st, r.rest) :
                        r \in {LoadPairs(st, TokenText(Head(toks)), Tail(toks))}} : TRUE

index_load(file) == LoadWords(index_new(file_numLines(file)), Flatten(file))

\* the postings index files of the model are written with
Postings == IndexWords \X Docs \X Counts

\* the file of a sequence of postings, consecutive postings of one word
\* sharing a line
RECURSIVE FileOf(_)
FileOf(ps) ==
  IF ps = <<>> THEN <<>>
  ELSE LET p    == Head(ps)
           rest == FileOf(Tail(ps))
           pair == <<IntTok(p[2]), IntTok(p[3])>>
       IN IF rest # <<>> /\ Head(rest)[1] = WordTok(p[1])
          THEN <<<<WordTok(p[1])>> \o pair \o Tail(Head(rest))>> \o Tail(rest)
          ELSE <<<<WordTok(p[1])>> \o pair>> \o rest

\* index files of up to n postings
IndexFiles(n) == {FileOf(ps) : ps \in SeqsUpTo(Postings, n)}

\* what index_load makes of them
LoadedIndexes(n) == {index_load(f) : f \in IndexFiles(n)}

(***************************************************************************)
(* querier.c: validation and tokenization of a raw query line              *)
(***************************************************************************)
\* the loop of isValidCharacters started at the second character
BadPositions_fromSecond(query) ==
  {k \in 2..Len(query) : ~isalpha(query[k]) /\ ~isspace(query[k])}

\* the positions of query holding a character that is neither a letter
\* nor whitespace
BadPositions(query) ==
  {k \in 1..Len(query) : ~isalpha(query[k]) /\ ~isspace(query[k])}

isValidCharacters(query) == BadPositions(query) = {}

\* the character the loop of isValidCharacters stops at
BadCharacter(query) == query[MinOf(BadPositions(query))]

\* while (isspace(*start)) start++
RECURSIVE SkipSpace(_, _)
SkipSpace(query, start) ==
  IF start <= Len(query) /\ isspace(query[start])
  THEN SkipSpace(query, start + 1) ELSE start

\* while (*end && !isspace(*end)) end++
RECURSIVE WordEnd(_, _)
WordEnd(query, end) ==
  IF end <= Len(query) /\ ~isspace(query[end])
  THEN WordEnd(query, end + 1) ELSE end

\* the outer loop of queryTokenize, from position start with the tokens
\* stored so far in words
RECURSIVE TokenizeFrom(_, _, _, _)
TokenizeFrom(query, start, words, maxWords) ==
  IF start > Len(query) THEN words
  ELSE CHOOSE r \in
         {IF s > Len(query) THEN words
          ELSE IF Len(words) < maxWords
               THEN TokenizeFrom(query, IF e <= Len(query) THEN e + 1 ELSE e,
                                 Append(words, [k \in 1..(e - s) |->
                                                  tolower(query[s + k - 1])]),
                                 maxWords)
               ELSE words :
            s \in {SkipSpace(query, start)},
            e \in {WordEnd(query, SkipSpace(query, start))}} : TRUE

queryTokenize(query, maxWords) == TokenizeFrom(query, 1, <<>>, maxWords)

\* int maxWords = strlen(query) / 4
MaxWordsOf_quarter(query) == Len(query) \div 4

\* int maxWords = strlen(query) / 2 + 1
MaxWordsOf(query) == (Len(query) \div 2) + 1

IsOperator(word) == streq(word, AND) \/ streq(word, OR)

\* the first i of the loop of isValidQuerySyntax with two operators in a row
ConsecutiveAt(words) ==
  {k \in 2..Len(words) : IsOperator(words[k]) /\ IsOperator(words[k - 1])}

\* isValidQuerySyntax without the check of the last token
isValidQuerySyntax_noLast(words) ==
  IF Len(words) = 0 THEN "empty"
  ELSE IF IsOperator(words[1]) THEN "first"
  ELSE IF ConsecutiveAt(words) # {} THEN "consecutive"
  ELSE "ok"

\* isValidQuerySyntax: "ok", or the check that failed
isValidQuerySyntax(words) ==
  IF Len(words) = 0 THEN "empty"
  ELSE IF IsOperator(words[1]) THEN "first"
  ELSE IF IsOperator(words[Len(words)]) THEN "last"
  ELSE IF ConsecutiveAt(words) # {} THEN "consecutive"
  ELSE "ok"

(***************************************************************************)
(* Lines written to stdout and stderr                                      *)
(***************************************************************************)
OutLine(fd, kind, text, score, doc) ==
  [fd |-> fd, kind |-> kind, text |-> text, score |-> score, doc |-> doc]

ErrBadCharacter(c) == OutLine("stderr", "bad character", <<<<c>>>>, 0, 0)
ErrFirst(w) == OutLine("stderr", "cannot be first", <<w>>, 0, 0)
ErrLast(w) == OutLine("stderr", "cannot be last", <<w>>, 0, 0)
ErrConsecutive(w1, w2) == OutLine("stderr", "consecutive", <<w1, w2>>, 0, 0)
ErrOpenFile(doc) == OutLine("stderr", "could not open file", <<>>, 0, doc)
OutQuery(words) == OutLine("stdout", "Query:", words, 0, 0)
OutNoMatch == OutLine("stdout", "No documents match.", <<>>, 0, 0)
OutMatches(n) == OutLine("stdout", "Matches documents (ranked):", <<>>, n, 0)
OutScore(score, doc, url) == OutLine("stdout", "score doc:", <<url>>, score, doc)
OutSeparator == OutLine("stdout", "-----", <<>>, 0, 0)

\* isValidQuerySyntax printing one and the same diagnostic for every failed check
SyntaxDiagnostic_generic(words) ==
  IF isValidQuerySyntax(words) \in {"first", "last", "consecutive"}
  THEN <<ErrFirst(words[1])>> ELSE <<>>

\* the diagnostic isValidQuerySyntax prints for a failed check
SyntaxDiagnostic(words) ==
  LET r == isValidQuerySyntax(words) IN
  IF r = "first" THEN <<ErrFirst(words[1])>>
  ELSE IF r = "last" THEN <<ErrLast(words[Len(words)])>>
  ELSE IF r = "consecutive"
       THEN LET k == MinOf(ConsecutiveAt(words))
            IN <<ErrConsecutive(words[k - 1], words[k])>>
  ELSE <<>>

(***************************************************************************)
(* querier.c: combining counters                                           *)
(***************************************************************************)
\* callbackAddCounts storing the new count in place of the sum
callbackAddCounts_overwrite(h, result, key, count) ==
  counters_set(h, result, key, count)

callbackAddCounts(h, result, key, count) ==
  LET existingCount == counters_get(h, result, key)
  IN counters_set(h, result, key, existingCount + count)

\* callbackSetMinimum keeping the accumulator's own count wherever
\* wordCounters has the key
callbackSetMinimum_keepOwn(h, acc, wordCounters, key, count) ==
  LET c0 == counters_get(h, wordCounters, key)
      c  == IF c0 = 0 THEN 0 ELSE count
  IN counters_set(h, acc, key, c)

\* callbackSetMinimum leaving the count alone when wordCounters lacks the key
callbackSetMinimum_absent(h, acc, wordCounters, key, count) ==
  LET c0 == counters_get(h, wordCounters, key)
      c  == IF count < c0 \/ c0 = 0 THEN count ELSE c0
  IN counters_set(h, acc, key, c)

\* callbackSetMinimum with the comparison turned around
callbackSetMinimum_max(h, acc, wordCounters, key, count) ==
  LET c0 == counters_get(h, wordCounters, key)
      c  == IF count > c0 THEN count ELSE c0
  IN counters_set(h, acc, key, c)

callbackSetMinimum(h, acc, wordCounters, key, count) ==
  LET c0 == counters_get(h, wordCounters, key)
      c  == IF count < c0 THEN count ELSE c0
  IN counters_set(h, acc, key, c)

\* counters_iterate(src, dst, callbackAddCounts) over the keys still to visit
RECURSIVE iterateAddCounts(_, _, _, _)
iterateAddCounts(h, src, keys, dst) ==
  IF keys = {} THEN h
  ELSE LET key == MinOf(keys)
       IN iterateAddCounts(callbackAddCounts(h, dst, key, h[src][key]),
                           src, keys \ {key}, dst)

\* counters_iterate(acc, &args, callbackSetMinimum) over the keys still to visit
RECURSIVE iterateSetMinimum(_, _, _, _)
iterateSetMinimum(h, acc, keys, wordCounters) ==
  IF keys = {} THEN h
  ELSE LET key == MinOf(keys)
       IN iterateSetMinimum(callbackSetMinimum(h, acc, wordCounters, key, h[acc][key]),
                            acc, keys \ {key}, wordCounters)

unionCounters(h, result, andResult) ==
  IF result = NULL \/ andResult = NULL THEN h
  ELSE iterateAddCounts(h, andResult, counters_keys(h, andResult), result)

\* intersectCounters adding the counts of wordCounters instead of taking minima
intersectCounters_sum(h, acc, wordCounters) ==
  iterateAddCounts(h, wordCounters, counters_keys(h, wordCounters), acc)

intersectCounters(h, acc, wordCounters) ==
  iterateSetMinimum(h, acc, counters_keys(h, acc), wordCounters)

\* matchMerge that merges but neither deletes nor resets andSequence
matchMerge_keep(h, andSeq, orSeq) ==
  IF andSeq # NULL
  THEN LET or1 == IF orSeq = NULL THEN NewAddr(h) ELSE orSeq
           h1  == IF orSeq = NULL THEN counters_new(h, or1) ELSE h
       IN [heap |-> unionCounters(h1, or1, andSeq), andSequence |-> andSeq,
           orSequence |-> or1]
  ELSE [heap |-> h, andSequence |-> andSeq, orSequence |-> orSeq]

\* matchMerge that deletes andSequence and leaves the pointer as it is
matchMerge_dangling(h, andSeq, orSeq) ==
  IF andSeq # NULL
  THEN LET or1 == IF orSeq = NULL THEN NewAddr(h) ELSE orSeq
           h1  == IF orSeq = NULL THEN counters_new(h, or1) ELSE h
           h2  == unionCounters(h1, or1, andSeq)
       IN [heap |-> counters_delete(h2, andSeq), andSequence |-> andSeq, orSequence |-> or1]
  ELSE [heap |-> h, andSequence |-> andSeq, orSequence |-> orSeq]

\* matchMerge(&andSequence, &orSequence): the heap and both pointers afterwards
matchMerge(h, andSeq, orSeq) ==
  IF andSeq # NULL
  THEN LET or1 == IF orSeq = NULL THEN NewAddr(h) ELSE orSeq
           h1  == IF orSeq = NULL THEN counters_new(h, or1) ELSE h
           h2  == unionCounters(h1, or1, andSeq)
       IN [heap |-> counters_delete(h2, andSeq), andSequence |-> NULL, orSequence |-> or1]
  ELSE [heap |-> h, andSequence |-> andSeq, orSequence |-> orSeq]

(***************************************************************************)
(* querier.c: ranking                                                      *)
(***************************************************************************)
\* callbackCountNonZero / callbackStoreDocScores visit the entries with count > 0
NonZeroDocs(h, result) == {d \in counters_keys(h, result) : h[result][d] > 0}

\* compareScores with the operands swapped: ascending order
compareScores_ascending(a, b) == a.score - b.score

compareScores(a, b) == b.score - a.score

\* the arrays qsort may leave in docScores: every arrangement of the stored
\* entries in which compareScores never puts a later entry first
SortedScores(h, result) ==
  {[k \in DOMAIN o |-> [docID |-> o[k], score |-> h[result][o[k]]]] :
     o \in {p \in Orders(NonZeroDocs(h, result)) :
              \A a, b \in DOMAIN p :
                 a < b => compareScores([docID |-> p[a], score |-> h[result][p[a]]],
                                        [docID |-> p[b], score |-> h[result][p[b]]]) <= 0}}

\* file_readLine on a file with the lines file: the first line, or a null
\* pointer when there is none to read
file_readLine(file) ==
  [null |-> file = <<>>, str |-> IF file = <<>> THEN <<>> ELSE Head(file)]

\* what printf prints for %s: glibc prints (null) for a null pointer
PrintfString(p) == IF p.null THEN <<"(", "n", "u", "l", "l", ")">> ELSE p.str

\* the first entry of docScores whose page file cannot be opened, 0 if none
FirstUnopened(docScores, pages) ==
  LET bad == {k \in DOMAIN docScores : docScores[k].docID \notin DOMAIN pages}
  IN IF bad = {} THEN 0 ELSE MinOf(bad)

\* the lines printRankedResults prints for the sorted array docScores
RankedLines(docScores, pages) ==
  LET stop == FirstUnopened(docScores, pages)
      n    == IF stop = 0 THEN Len(docScores) ELSE stop - 1
  IN <<OutMatches(Len(docScores))>>
     \o [k \in 1..n |-> OutScore(docScores[k].score, docScores[k].docID,
                                 PrintfString(file_readLine(pages[docScores[k].docID])))]
     \o (IF stop = 0 THEN <<>> ELSE <<ErrOpenFile(docScores[stop].docID)>>)

(***************************************************************************)
(* State                                                                   *)
(***************************************************************************)
VARIABLES
  ipc,                \* indexer: where main is, or the last call of index.c
  built,              \* indexer: its index, a record [ix, heap]
  indexFile,          \* the lines of the index file
  pageDir,            \* page directory: docID of each page file |-> its lines
  cmd,                \* indexer, crawler: the command line and what its arguments name
  web,                \* the site: URL of each page |-> the links webpage_getNextURL finds in it
  maxDepth,           \* crawler: its third argument
  pagesToCrawl,       \* crawler: the bag of pages [url, depth]
  pagesSeen,          \* crawler: the keys of the hashtable
  crawlDocID,         \* crawler: docID of crawl; indexer: docID of indexBuild
  fetched,            \* crawler: the pages webpage_fetch has fetched, in order
  inserted,           \* crawler: the pages bag_insert was called with, as a bag
  extracted,          \* crawler: the pages bag_extract has returned, as a bag
  cpc,                \* crawler: "idle", "crawl", "done" or "assert"
  pc,                 \* querier: position in main / processQuery / queryEvaluate
  index,              \* querier: the loaded index, word |-> counters address
  heap,               \* querier: the live counters objects
  query,              \* the line getline returned
  words,              \* the tokens of the line
  i,                  \* loop index of queryEvaluate (1-based)
  andSequence,
  orSequence,
  andSequenceInvalid,
  result,             \* the pointer queryEvaluate returned
  out,                \* the lines printed since the last separator line
  stdin,              \* standard input: any stream, or a given sequence of lines
  pos,                \* the number of lines of a given stdin that getline has returned
  blocks              \* blocks the current call of processQuery allocated and has not freed

crawlVars == <<web, maxDepth, pagesToCrawl, pagesSeen, crawlDocID, fetched, inserted,
              extracted, cpc>>

vars == <<ipc, built, indexFile, pageDir, cmd, crawlVars, pc, index, heap, query, words, i,
          andSequence, orSequence, andSequenceInvalid, result, out, stdin, pos,
          blocks>>

indexerVars == <<ipc, built>>
evalVars == <<words, i, andSequence, orSequence, andSequenceInvalid>>

\* a command line of two arguments that name a crawler directory and a file
\* that can be written
ValidCommand == [argc |-> 3, crawlerDir |-> TRUE, writable |-> TRUE]

\* the crawler does not run
NoCrawl ==
  /\ web = <<>>
  /\ maxDepth = 0
  /\ pagesToCrawl = EmptyBag
  /\ pagesSeen = {}
  /\ crawlDocID = 1
  /\ fetched = <<>>
  /\ inserted = EmptyBag
  /\ extracted = EmptyBag
  /\ cpc = "idle"

\* the URL on the first line of page file d
UrlOf(d) == <<"u", "r", "l">> \o Digits(d)

\* the lines of page file d that the querier reads, as the crawler wrote it
PageFile(d) == <<UrlOf(d)>>

(***************************************************************************)
(* Query inputs of the model                                               *)
(***************************************************************************)
QueryWords == {Cat, Dog, Emu}

\* the invariant of a query token sequence: non-empty, no operator first or
\* last, no two operators in a row
SyntaxInvariant(ts) ==
  /\ Len(ts) > 0
  /\ ts[1] \notin {AND, OR}
  /\ ts[Len(ts)] \notin {AND, OR}
  /\ \A k \in 1..(Len(ts) - 1) : ~(ts[k] \in {AND, OR} /\ ts[k + 1] \in {AND, OR})

NumSearchWords(ts) == Cardinality({k \in DOMAIN ts : ts[k] \notin {AND, OR}})

ValidTokenSeqs ==
  {ts \in SeqsUpTo(QueryWords \cup {AND, OR}, 2 * MaxQueryWords - 1) :
     SyntaxInvariant(ts) /\ NumSearchWords(ts) <= MaxQueryWords}

\* atoms of raw lines: words and operators in either case, one of them with
\* whitespace around it, and an atom of two characters that are not allowed
PaddedDog == <<" ", "D", "o", "g", "\t">>

Atoms == {Cat, PaddedDog, AND, <<"O", "R">>, <<"&", "-">>}

RECURSIVE JoinAtoms(_)
JoinAtoms(as) ==
  IF as = <<>> THEN <<>>
  ELSE IF Len(as) = 1 THEN Head(as)
  ELSE Head(as) \o <<" ">> \o JoinAtoms(Tail(as))

\* getline keeps the newline that ends the line
LinesOf(atoms, n) == {JoinAtoms(as) \o <<"\n">> : as \in SeqsUpTo(atoms, n)}

QueryLines == LinesOf(Atoms, MaxLineAtoms)

\* processQuery steps 1 to 4 on a line: the outcome of isValidCharacters,
\* the tokens of queryTokenize and the outcome of isValidQuerySyntax
Parse(line) ==
  CHOOSE r \in
    {[line            |-> line,
      validCharacters |-> valid,
      badCharacter    |-> IF valid THEN "" ELSE BadCharacter(line),
      words           |-> t,
      syntax          |-> IF valid THEN isValidQuerySyntax(t) ELSE "",
      diagnostic      |-> IF valid THEN SyntaxDiagnostic(t) ELSE <<>>] :
       valid \in {isValidCharacters(line)},
       t \in {IF isValidCharacters(line)
              THEN queryTokenize(line, MaxWordsOf(line)) ELSE <<>>}} : TRUE

\* the lines of the model, parsed
ParsedLines == {Parse(line) : line \in QueryLines}

(***************************************************************************)
(* Initial states                                                          *)
(***************************************************************************)
\* standard input about which nothing is known
AnyInput == [any |-> TRUE, lines |-> <<>>]

\* standard input holding the lines ls and then end-of-stream
GivenInput(ls) == [any |-> FALSE, lines |-> ls]

NoQuery ==
  /\ pos = 0
  /\ blocks = {}
  /\ query = <<>>
  /\ words = <<>>
  /\ i = 0
  /\ andSequence = NULL
  /\ orSequence = NULL
  /\ andSequenceInvalid = FALSE
  /\ result = NULL
  /\ out = <<>>

\* the querier is started on an index file and a crawler directory
Init ==
  /\ ipc = "idle"
  /\ built = index_new(500)
  /\ indexFile \in IndexFiles(MaxPostings)
  /\ pageDir = [d \in 1..MaxDoc |-> PageFile(d)]
  /\ cmd = ValidCommand
  /\ NoCrawl
  /\ pc = "start"
  /\ index = NoIndex
  /\ heap = <<>>
  /\ stdin = AnyInput
  /\ NoQuery

\* index files that index_save does not write: a line without pairs, a line
\* that starts with a number, a docID without a count, a pair that is not a
\* number
MalformedFiles ==
  {<<<<WordTok(Cat)>>, <<WordTok(Dog), IntTok(1), IntTok(2)>>>>,
   <<<<IntTok(1), IntTok(2)>>, <<WordTok(Dog), IntTok(1), IntTok(2)>>>>,
   <<<<WordTok(Cat), IntTok(1)>>, <<WordTok(Dog), IntTok(2), IntTok(1)>>>>,
   <<<<WordTok(Dog), IntTok(1), IntTok(2), IntTok(2), WordTok(Emu)>>>>}

\* the querier is started on one of them
InitMalformed ==
  /\ ipc = "idle"
  /\ built = index_new(500)
  /\ indexFile \in MalformedFiles
  /\ pageDir = [d \in 1..MaxDoc |-> PageFile(d)]
  /\ cmd = ValidCommand
  /\ NoCrawl
  /\ pc = "start"
  /\ index = NoIndex
  /\ heap = <<>>
  /\ stdin = AnyInput
  /\ NoQuery

\* an index file in which cat and dog share document 2
SharedDocFile == FileOf(<<<<Cat, 1, 2>>, <<Cat, 2, 1>>, <<Dog, 2, 2>>>>)

\* the querier is started on a page directory in which page files may be
\* missing or empty
InitPages ==
  /\ ipc = "idle"
  /\ built = index_new(500)
  /\ indexFile \in {<<>>, SharedDocFile}
  /\ pageDir \in {f \in UNION {[D -> {<<>>} \cup {PageFile(d) : d \in D}] :
                                  D \in SUBSET (1..MaxDoc)} :
                    \A d \in DOMAIN f : f[d] \in {<<>>, PageFile(d)}}
  /\ cmd = ValidCommand
  /\ NoCrawl
  /\ pc = "start"
  /\ index = NoIndex
  /\ heap = <<>>
  /\ stdin = AnyInput
  /\ NoQuery

\* the querier is started on an index file, with up to MaxLines lines of up
\* to MaxInputAtoms atoms on its standard input
InitLines ==
  /\ ipc = "idle"
  /\ built = index_new(500)
  /\ indexFile \in {<<>>, SharedDocFile}
  /\ pageDir = [d \in 1..MaxDoc |-> PageFile(d)]
  /\ cmd = ValidCommand
  /\ NoCrawl
  /\ pc = "start"
  /\ index = NoIndex
  /\ heap = <<>>
  /\ stdin \in {GivenInput(ls) :
                  ls \in SeqsUpTo(LinesOf(Atoms \ {PaddedDog}, MaxInputAtoms), MaxLines)}
  /\ NoQuery

\* queryEvaluate is entered with a loaded index and a token sequence that
\* satisfies the syntax invariant
InitEval ==
  /\ ipc = "idle"
  /\ built = index_new(500)
  /\ indexFile = <<>>
  /\ pageDir = [d \in 1..MaxDoc |-> PageFile(d)]
  /\ cmd = ValidCommand
  /\ NoCrawl
  /\ pc = "eval"
  /\ \E st \in LoadedIndexes(MaxPostings) : index = st.ix /\ heap = st.heap
  /\ query = <<>>
  /\ words \in ValidTokenSeqs
  /\ i = 1
  /\ andSequence = NULL
  /\ orSequence = NULL
  /\ andSequenceInvalid = FALSE
  /\ result = NULL
  /\ out = <<OutQuery(words)>>
  /\ stdin = AnyInput
  /\ pos = 0
  /\ blocks = {"words"}

\* the indexer starts on an empty index; the querier waits for its file
InitIndexer ==
  /\ ipc = "build"
  /\ built = index_new(500)
  /\ indexFile = <<>>
  /\ pageDir = [d \in 1..MaxDoc |-> PageFile(d)]
  /\ cmd = ValidCommand
  /\ NoCrawl
  /\ pc = "start"
  /\ index = NoIndex
  /\ heap = <<>>
  /\ stdin = AnyInput
  /\ NoQuery

(***************************************************************************)
(* Indexer: index_insert calls, then index_save                            *)
(***************************************************************************)
TotalCount(st) ==
  LET perWord == [w \in DOMAIN st.ix |->
                    SumOver(st.heap[st.ix[w]], DOMAIN st.heap[st.ix[w]])]
  IN SumOver(perWord, DOMAIN st.ix)

InsertDocs == (0 - 1)..MaxDoc

\* a word of lower-case letters as long as the buffer of index_load
LongWord == [k \in 1..WordBufferSize |-> "a"]

\* the words indexPage passes to index_insert
InsertWords == IndexWords \cup {LongWord}

IndexerInsert(word, docID) ==
  /\ ipc = "build"
  /\ TotalCount(built) < MaxInserts
  /\ built' = index_insert(built, word, docID)
  /\ UNCHANGED <<ipc, indexFile, pageDir, cmd, crawlVars, stdin, pos, blocks, pc, index, heap, query, evalVars, result, out>>

IndexerSave(orders) ==
  /\ ipc = "build"
  /\ indexFile' = index_save(built, orders.wo, orders.ko)
  /\ ipc' = "saved"
  /\ UNCHANGED <<built, pageDir, cmd, crawlVars, stdin, pos, blocks, pc, index, heap, query, evalVars, result, out>>

(***************************************************************************)
(* index.c called in any order, as indextest and the unit tests call it    *)
(***************************************************************************)
\* the index files index_load is called on: the files of up to two postings,
\* files that repeat a word and docID on a later line or hold a negative
\* number, and the files index_save does not write
LoadFiles ==
  IndexFiles(2)
    \cup {FileOf(<<<<Cat, 1, 2>>, <<Dog, 2, 1>>, <<Cat, 1, 1>>>>),
          FileOf(<<<<Cat, 1, 1>>, <<Cat, 2, 2>>, <<Cat, 1, 2>>>>),
          <<<<WordTok(Cat), IntTok(-1), IntTok(2)>>, <<WordTok(Dog), IntTok(1), IntTok(-1)>>>>}
    \cup MalformedFiles

\* the arguments of the calls, valid and invalid
CallWords == {Cat, Dog}
CallDocs == {-1} \cup Docs
CallCounts == {-1, 0} \cup Counts

InitIndexCalls ==
  /\ ipc = "new"
  /\ built = index_new(500)
  /\ indexFile \in LoadFiles
  /\ pageDir = [d \in 1..MaxDoc |-> PageFile(d)]
  /\ cmd = ValidCommand
  /\ NoCrawl
  /\ pc = "start"
  /\ index = NoIndex
  /\ heap = <<>>
  /\ stdin = AnyInput
  /\ NoQuery

IndexNewCall ==
  /\ built' = index_new(500)
  /\ ipc' = "new"
  /\ UNCHANGED <<indexFile, pageDir, cmd, crawlVars, stdin, pos, blocks, pc, index, heap, query, evalVars, result, out>>

IndexInsertCall(word, docID) ==
  /\ TotalCount(built) < MaxInserts
  /\ built' = index_insert(built, word, docID)
  /\ ipc' = "insert"
  /\ UNCHANGED <<indexFile, pageDir, cmd, crawlVars, stdin, pos, blocks, pc, index, heap, query, evalVars, result, out>>

IndexSetCall(word, docID, count) ==
  /\ TotalCount(built) < MaxInserts
  /\ built' = index_set(built, word, docID, count)
  /\ ipc' = "set"
  /\ UNCHANGED <<indexFile, pageDir, cmd, crawlVars, stdin, pos, blocks, pc, index, heap, query, evalVars, result, out>>

\* index_load returns a new index; the file stays as it is
IndexLoadCall ==
  /\ built' = index_load(indexFile)
  /\ ipc' = "load"
  /\ UNCHANGED <<indexFile, pageDir, cmd, crawlVars, stdin, pos, blocks, pc, index, heap, query, evalVars, result, out>>

(***************************************************************************)
(* Indexer: main, parseArgs, indexBuild, indexPage                         *)
(***************************************************************************)
\* the words webpage_getNextWord finds in the pages of the model
PageWords == {Cat, <<"C", "a", "T">>, Dog, <<"a", "t">>}

\* the directories the crawler leaves: page files 1..n without a gap, each
\* with its URL, its depth and its HTML, of which the model keeps the words;
\* a page file may also be empty
CrawlerDirs ==
  UNION {{[d \in 1..n |-> IF d \in e THEN <<>> ELSE <<UrlOf(d), <<"0">>, html[d]>>] :
            html \in [1..n -> SeqsUpTo(PageWords, MaxPageWords)], e \in SUBSET (1..n)} :
         n \in 0..MaxDoc}

\* pagedir_load: NULL unless the URL, the depth and the HTML can all be read
pagedir_load(file) ==
  [null |-> Len(file) < 3, html |-> IF Len(file) < 3 THEN <<>> ELSE file[3]]

\* normalizeWord returning the word as it is
normalizeWord_identity(word) == word

normalizeWord(word) == [k \in 1..Len(word) |-> tolower(word[k])]

\* indexPage: the loop over the words webpage_getNextWord still returns
RECURSIVE indexPage(_, _, _)
indexPage(st, page, docID) ==
  IF page = <<>> THEN st
  ELSE indexPage(IF Len(Head(page)) >= 3
                 THEN index_insert(st, normalizeWord(Head(page)), docID)
                 ELSE st,
                 Tail(page), docID)

\* indexBuild: the loop from docID on, up to the first page file that
\* cannot be opened
RECURSIVE indexBuild(_, _, _)
indexBuild(st, dir, docID) ==
  IF docID \notin DOMAIN dir THEN st
  ELSE indexBuild(IF pagedir_load(dir[docID]).null THEN st
                  ELSE indexPage(st, pagedir_load(dir[docID]).html, docID),
                  dir, docID + 1)

\* the indexer is started on a command line, with or without an index file
\* from an earlier run
InitIndexerMain ==
  /\ ipc = "start"
  /\ built = index_new(500)
  /\ indexFile \in {<<>>, SharedDocFile}
  /\ pageDir \in CrawlerDirs
  /\ cmd \in [argc : {2, 3, 4}, crawlerDir : BOOLEAN, writable : BOOLEAN]
  /\ NoCrawl
  /\ pc = "start"
  /\ index = NoIndex
  /\ heap = <<>>
  /\ stdin = AnyInput
  /\ NoQuery

\* parseArgs opening the index file before it validates the page directory
IndexerParseArgs_openFirst ==
  /\ ipc = "start"
  /\ IF cmd.argc # 3 \/ ~cmd.writable
     THEN ipc' = "exit1" /\ indexFile' = indexFile
     ELSE IF ~cmd.crawlerDir
          THEN ipc' = "exit1" /\ indexFile' = <<>>
          ELSE ipc' = "parsed" /\ indexFile' = <<>>
  /\ UNCHANGED <<built, pageDir, cmd, crawlVars, stdin, pos, blocks, pc, index, heap, query, evalVars, result, out>>

\* main: parseArgs; fopen(indexFilename, "w") leaves the file empty
IndexerParseArgs ==
  /\ ipc = "start"
  /\ IF cmd.argc # 3 \/ ~cmd.crawlerDir \/ ~cmd.writable
     THEN ipc' = "exit1" /\ indexFile' = indexFile
     ELSE ipc' = "parsed" /\ indexFile' = <<>>
  /\ UNCHANGED <<built, pageDir, cmd, crawlVars, stdin, pos, blocks, pc, index, heap, query, evalVars, result, out>>

\* main: index_new(500), indexBuild
IndexerBuild ==
  /\ ipc = "parsed"
  /\ built' = indexBuild(index_new(500), pageDir, 1)
  /\ ipc' = "build"
  /\ UNCHANGED <<indexFile, pageDir, cmd, crawlVars, stdin, pos, blocks, pc, index, heap, query, evalVars, result, out>>

(***************************************************************************)
(* Indexer: indexBuild step by step, one action per turn of its loop       *)
(***************************************************************************)
\* page directories with a gap: no file 1, or no file between file 1 and a
\* later file
GapDirs ==
  {[d \in D |-> <<UrlOf(d), <<"0">>, <<Cat, Dog>>>>] : D \in {{MaxDoc}, {1, MaxDoc + 1}}}

\* parseArgs has returned and main has created the index; indexBuild sets
\* docID to 1
InitIndexBuild ==
  /\ ipc = "parsed"
  /\ built = index_new(500)
  /\ indexFile = <<>>
  /\ pageDir \in CrawlerDirs \cup GapDirs
  /\ cmd = ValidCommand
  /\ NoCrawl
  /\ pc = "start"
  /\ index = NoIndex
  /\ heap = <<>>
  /\ stdin = AnyInput
  /\ NoQuery

\* indexBuild: a turn of the loop in which fopen opens the file docID
IndexBuildPage ==
  /\ ipc = "parsed"
  /\ crawlDocID \in DOMAIN pageDir
  /\ built' = IF pagedir_load(pageDir[crawlDocID]).null THEN built
               ELSE indexPage(built, pagedir_load(pageDir[crawlDocID]).html, crawlDocID)
  /\ crawlDocID' = crawlDocID + 1
  /\ UNCHANGED <<web, maxDepth, pagesToCrawl, pagesSeen, fetched, inserted, extracted, cpc>>
  /\ UNCHANGED <<ipc, indexFile, pageDir, cmd, stdin, pos, blocks, pc, index, heap, query, evalVars, result, out>>

\* indexBuild going on to the next docID when a file does not open and a
\* later file exists
IndexBuildEnd_skipGap ==
  /\ ipc = "parsed"
  /\ crawlDocID \notin DOMAIN pageDir
  /\ IF \E d \in DOMAIN pageDir : d > crawlDocID
     THEN crawlDocID' = crawlDocID + 1 /\ ipc' = ipc
     ELSE crawlDocID' = crawlDocID /\ ipc' = "build"
  /\ UNCHANGED <<web, maxDepth, pagesToCrawl, pagesSeen, fetched, inserted, extracted, cpc>>
  /\ UNCHANGED <<built, indexFile, pageDir, cmd, stdin, pos, blocks, pc, index, heap, query, evalVars, result, out>>

\* indexBuild: fopen returns NULL, break
IndexBuildEnd ==
  /\ ipc = "parsed"
  /\ crawlDocID \notin DOMAIN pageDir
  /\ ipc' = "build"
  /\ UNCHANGED <<built, indexFile, pageDir, cmd, crawlVars, stdin, pos, blocks, pc, index, heap, query, evalVars, result, out>>

(***************************************************************************)
(* Crawler: crawl, pageScan, pagedir_save                                  *)
(***************************************************************************)
SeedURL == "http://cs50tse.cs.dartmouth.edu/tse/"
InternalURLs == {SeedURL, "http://cs50tse.cs.dartmouth.edu/tse/A.html",
                 "http://cs50tse.cs.dartmouth.edu/tse/B.html"}

\* a link that is not a URL normalizeURL can normalize
InvalidURL == "http://"

\* the URLs webpage_getNextURL finds: the pages of the site, one of them
\* also in a spelling that is not normalized, a page of another site, and
\* the invalid link
FoundURLs == InternalURLs \cup {"http://cs50tse.cs.dartmouth.edu/tse/./A.html",
                                "http://www.dartmouth.edu/", InvalidURL}

\* normalizeURL: NULL for a URL that is not valid, else the normalized URL
normalizeURL(url) ==
  [null |-> url = InvalidURL,
   str |-> IF url = "http://cs50tse.cs.dartmouth.edu/tse/./A.html"
           THEN "http://cs50tse.cs.dartmouth.edu/tse/A.html"
           ELSE url]

isInternalURL(url) == url \in InternalURLs

\* the command line crawl runs on: parseArgs has returned, pagedir_init has
\* created .crawler in the page directory
CrawlerCommand == [argc |-> 4, crawlerDir |-> TRUE, writable |-> TRUE]

\* pagedir_save: the page directory with the file docID written, unless
\* the arguments are invalid or the file cannot be created
pagedir_save(dir, page, html, docID, writable) ==
  IF docID < 0 \/ ~writable THEN dir
  ELSE [d \in DOMAIN dir \cup {docID} |->
          IF d = docID THEN <<page.url, Digits(page.depth), html>> ELSE dir[d]]

\* pageScan with bag_insert for every internal URL, whatever hashtable_insert
\* returns
RECURSIVE pageScan_ignoreSeen(_, _, _, _)
pageScan_ignoreSeen(links, depth, toCrawl, seen) ==
  IF links = <<>> THEN [pagesToCrawl |-> toCrawl, pagesSeen |-> seen, asserted |-> FALSE]
  ELSE IF normalizeURL(Head(links)).null
       THEN [pagesToCrawl |-> toCrawl, pagesSeen |-> seen, asserted |-> TRUE]
  ELSE IF isInternalURL(normalizeURL(Head(links)).str)
       THEN pageScan_ignoreSeen(Tail(links), depth,
                     toCrawl (+) SetToBag({[url |-> normalizeURL(Head(links)).str,
                                            depth |-> depth + 1]}),
                     seen \cup {normalizeURL(Head(links)).str})
       ELSE pageScan_ignoreSeen(Tail(links), depth, toCrawl, seen)

\* pageScan: the loop over the links webpage_getNextURL still returns
RECURSIVE pageScan(_, _, _, _)
pageScan(links, depth, toCrawl, seen) ==
  IF links = <<>> THEN [pagesToCrawl |-> toCrawl, pagesSeen |-> seen, asserted |-> FALSE]
  ELSE IF normalizeURL(Head(links)).null
       THEN [pagesToCrawl |-> toCrawl, pagesSeen |-> seen, asserted |-> TRUE]
  ELSE IF isInternalURL(normalizeURL(Head(links)).str)
             /\ normalizeURL(Head(links)).str \notin seen
       THEN pageScan(Tail(links), depth,
                     toCrawl (+) SetToBag({[url |-> normalizeURL(Head(links)).str,
                                            depth |-> depth + 1]}),
                     seen \cup {normalizeURL(Head(links)).str})
       ELSE pageScan(Tail(links), depth, toCrawl, seen)

\* crawl has put the seed page in the bag and the seed URL in the hashtable
InitCrawler ==
  /\ cpc = "crawl"
  /\ web \in [InternalURLs -> SeqsUpTo(FoundURLs, MaxLinks)]
  /\ maxDepth \in 0..MaxMaxDepth
  /\ pagesSeen = {SeedURL}
  /\ pagesToCrawl = SetToBag({[url |-> SeedURL, depth |-> 0]})
  /\ crawlDocID = 1
  /\ fetched = <<>>
  /\ inserted = pagesToCrawl
  /\ extracted = EmptyBag
  /\ pageDir = <<>>
  /\ cmd = CrawlerCommand
  /\ ipc = "idle"
  /\ built = index_new(500)
  /\ indexFile = <<>>
  /\ pc = "start"
  /\ index = NoIndex
  /\ heap = <<>>
  /\ stdin = AnyInput
  /\ NoQuery

\* crawl with pagedir_save(page, pageDirectory, docID) and a docID++ that
\* does not depend on webpage_fetch
CrawlFetchFailed_countsDocID(page) ==
  /\ cpc = "crawl"
  /\ BagIn(page, pagesToCrawl)
  /\ pagesToCrawl' = pagesToCrawl (-) SetToBag({page})
  /\ crawlDocID' = crawlDocID + 1
  /\ extracted' = extracted (+) SetToBag({page})
  /\ UNCHANGED <<web, maxDepth, pagesSeen, fetched, inserted, cpc>>
  /\ UNCHANGED <<ipc, built, indexFile, pageDir, cmd, stdin, pos, blocks, pc, index, heap, query, evalVars, result, out>>

\* crawl with "if (depth <= maxDepth)" before pageScan
CrawlFetched_scanAtMaxDepth(page) ==
  /\ cpc = "crawl"
  /\ BagIn(page, pagesToCrawl)
  /\ fetched' = Append(fetched, page)
  /\ pageDir' = pagedir_save(pageDir, page, web[page.url], crawlDocID, cmd.writable)
  /\ crawlDocID' = crawlDocID + 1
  /\ extracted' = extracted (+) SetToBag({page})
  /\ IF page.depth <= maxDepth
     THEN \E r \in {pageScan(web[page.url], page.depth,
                              pagesToCrawl (-) SetToBag({page}), pagesSeen)} :
            /\ pagesToCrawl' = r.pagesToCrawl
            /\ pagesSeen' = r.pagesSeen
            /\ inserted' = inserted (+) (r.pagesToCrawl (-) (pagesToCrawl (-) SetToBag({page})))
            /\ cpc' = IF r.asserted THEN "assert" ELSE cpc
     ELSE /\ pagesToCrawl' = pagesToCrawl (-) SetToBag({page})
          /\ UNCHANGED <<pagesSeen, inserted, cpc>>
  /\ UNCHANGED <<web, maxDepth>>
  /\ UNCHANGED <<ipc, built, indexFile, cmd, stdin, pos, blocks, pc, index, heap, query, evalVars, result, out>>

\* crawl: one turn of the loop on a page webpage_fetch fetches; mem_assert
\* in pageScan ends the process when normalizeURL returns NULL
CrawlFetched(page) ==
  /\ cpc = "crawl"
  /\ BagIn(page, pagesToCrawl)
  /\ fetched' = Append(fetched, page)
  /\ pageDir' = pagedir_save(pageDir, page, web[page.url], crawlDocID, cmd.writable)
  /\ crawlDocID' = crawlDocID + 1
  /\ extracted' = extracted (+) SetToBag({page})
  /\ IF page.depth < maxDepth
     THEN \E r \in {pageScan(web[page.url], page.depth,
                              pagesToCrawl (-) SetToBag({page}), pagesSeen)} :
            /\ pagesToCrawl' = r.pagesToCrawl
            /\ pagesSeen' = r.pagesSeen
            /\ inserted' = inserted (+) (r.pagesToCrawl (-) (pagesToCrawl (-) SetToBag({page})))
            /\ cpc' = IF r.asserted THEN "assert" ELSE cpc
     ELSE /\ pagesToCrawl' = pagesToCrawl (-) SetToBag({page})
          /\ UNCHANGED <<pagesSeen, inserted, cpc>>
  /\ UNCHANGED <<web, maxDepth>>
  /\ UNCHANGED <<ipc, built, indexFile, cmd, stdin, pos, blocks, pc, index, heap, query, evalVars, result, out>>

\* crawl: one turn of the loop on a page webpage_fetch fails to fetch
CrawlFetchFailed(page) ==
  /\ cpc = "crawl"
  /\ BagIn(page, pagesToCrawl)
  /\ pagesToCrawl' = pagesToCrawl (-) SetToBag({page})
  /\ extracted' = extracted (+) SetToBag({page})
  /\ UNCHANGED <<web, maxDepth, pagesSeen, crawlDocID, fetched, inserted, cpc>>
  /\ UNCHANGED <<ipc, built, indexFile, pageDir, cmd, stdin, pos, blocks, pc, index, heap, query, evalVars, result, out>>

\* crawl: bag_extract returns NULL
CrawlDone ==
  /\ cpc = "crawl"
  /\ pagesToCrawl = EmptyBag
  /\ cpc' = "done"
  /\ UNCHANGED <<web, maxDepth, pagesToCrawl, pagesSeen, crawlDocID, fetched, inserted, extracted>>
  /\ UNCHANGED <<ipc, built, indexFile, pageDir, cmd, stdin, pos, blocks, pc, index, heap, query, evalVars, result, out>>

(***************************************************************************)
(* Querier: main                                                           *)
(***************************************************************************)
\* main, step 2: index_load, fclose
LoadIndex ==
  /\ pc = "start"
  /\ ipc # "build"
  /\ LET st == index_load(indexFile)
     IN /\ index' = st.ix
        /\ heap' = st.heap
  /\ indexFile' = <<>>
  /\ pc' = "read"
  /\ UNCHANGED <<indexerVars, pageDir, cmd, crawlVars, stdin, pos, blocks, query, evalVars, result, out>>

\* index_load on a file with a word of WordBufferSize characters or more:
\* fscanf writes past the end of word[256].  LoadIndex is the outcome in which
\* the bytes written past the buffer do no harm; here the process is killed
LoadIndexOverflow ==
  /\ pc = "start"
  /\ ipc # "build"
  /\ Overlong(indexFile)
  /\ pc' = "abort"
  /\ UNCHANGED <<indexerVars, indexFile, pageDir, cmd, crawlVars, stdin, pos, blocks, index, heap, query, evalVars, result, out>>

\* main: getline returns the line of p, the next line of a given stdin
ReadLine(p) ==
  /\ stdin.any \/ (pos < Len(stdin.lines) /\ stdin.lines[pos + 1] = p.line)
  /\ pos' = IF stdin.any THEN pos ELSE pos + 1

\* processQuery ending the process on a line with a bad character
QueryBadCharacters_fatal(p) ==
  /\ pc = "read"
  /\ ReadLine(p)
  /\ ~p.validCharacters
  /\ query' = p.line
  /\ out' = <<ErrBadCharacter(p.badCharacter)>>
  /\ pc' = "exit1"
  /\ UNCHANGED <<indexerVars, indexFile, pageDir, cmd, crawlVars, stdin, blocks, index, heap, evalVars, result>>

\* processQuery, step 1 fails: isValidCharacters prints and returns false
QueryBadCharacters(p) ==
  /\ pc = "read"
  /\ ReadLine(p)
  /\ ~p.validCharacters
  /\ query' = p.line
  /\ out' = <<ErrBadCharacter(p.badCharacter)>>
  /\ pc' = "returned"
  /\ UNCHANGED <<indexerVars, indexFile, pageDir, cmd, crawlVars, stdin, blocks, index, heap, evalVars, result>>

\* processQuery, step 3: queryTokenize finds no token
QueryNoTokens(p) ==
  /\ pc = "read"
  /\ ReadLine(p)
  /\ p.validCharacters
  /\ blocks' = blocks \cup {"words"}
  /\ LET t == p.words
     IN /\ Len(t) = 0
        /\ words' = t
  /\ query' = p.line
  /\ out' = <<>>
  /\ pc' = "returned"
  /\ UNCHANGED <<indexerVars, indexFile, pageDir, cmd, crawlVars, stdin, index, heap, i, andSequence,
                 orSequence, andSequenceInvalid, result>>

\* processQuery, step 4 fails: isValidQuerySyntax prints and returns false
QueryBadSyntax(p) ==
  /\ pc = "read"
  /\ ReadLine(p)
  /\ p.validCharacters
  /\ blocks' = blocks \cup {"words"}
  /\ LET t == p.words
     IN /\ Len(t) # 0
        /\ p.syntax # "ok"
        /\ words' = t
        /\ out' = p.diagnostic
  /\ query' = p.line
  /\ pc' = "returned"
  /\ UNCHANGED <<indexerVars, indexFile, pageDir, cmd, crawlVars, stdin, index, heap, i, andSequence,
                 orSequence, andSequenceInvalid, result>>

\* processQuery, steps 1-5 pass: the query is echoed and queryEvaluate entered
QueryAccepted(p) ==
  /\ pc = "read"
  /\ ReadLine(p)
  /\ p.validCharacters
  /\ blocks' = blocks \cup {"words"}
  /\ LET t == p.words
     IN /\ Len(t) # 0
        /\ p.syntax = "ok"
        /\ words' = t
        /\ out' = <<OutQuery(t)>>
  /\ query' = p.line
  /\ i' = 1
  /\ andSequence' = NULL
  /\ orSequence' = NULL
  /\ andSequenceInvalid' = FALSE
  /\ pc' = "eval"
  /\ UNCHANGED <<indexerVars, indexFile, pageDir, cmd, crawlVars, stdin, index, heap, result>>

(***************************************************************************)
(* Querier: queryEvaluate                                                  *)
(***************************************************************************)
\* a new AND sequence that points at the counters of the index itself
SeedSequence_alias(h, wordMatch) == [heap |-> h, andSequence |-> wordMatch]

\* the andSequence a new AND sequence starts with: a new counters object
\* holding a copy of the counts of wordMatch
SeedSequence(h, wordMatch) ==
  LET new == NewAddr(h)
      h1  == counters_new(h, new)
  IN [heap |-> iterateAddCounts(h1, wordMatch, counters_keys(h1, wordMatch), new),
      andSequence |-> new]

\* the heap and the locals of queryEvaluate
Locals ==
  [heap |-> heap, andSequence |-> andSequence, orSequence |-> orSequence,
   andSequenceInvalid |-> andSequenceInvalid]

EntryLocals(h) ==
  [heap |-> h, andSequence |-> NULL, orSequence |-> NULL, andSequenceInvalid |-> FALSE]

\* the loop body without andSequenceInvalid: a word that is not found only
\* discards the AND sequence
LoopBody_revive(l, ix, word) ==
  IF streq(word, OR)
  THEN LET m == matchMerge(l.heap, l.andSequence, l.orSequence)
       IN [heap |-> m.heap, andSequence |-> m.andSequence,
           orSequence |-> m.orSequence, andSequenceInvalid |-> FALSE]
  ELSE IF streq(word, AND) THEN l
  ELSE LET wordMatch == index_find(ix, word) IN
       IF wordMatch = NULL
       THEN [l EXCEPT !.heap = counters_delete(l.heap, l.andSequence),
                      !.andSequence = NULL]
       ELSE IF l.andSequence = NULL
            THEN LET s == SeedSequence(l.heap, wordMatch)
                 IN [l EXCEPT !.heap = s.heap, !.andSequence = s.andSequence]
            ELSE [l EXCEPT !.heap = intersectCounters(l.heap, l.andSequence, wordMatch)]

\* one iteration of the for loop of queryEvaluate, on the token word
LoopBody(l, ix, word) ==
  IF streq(word, OR)
  THEN LET m == matchMerge(l.heap, l.andSequence, l.orSequence)
       IN [heap |-> m.heap, andSequence |-> m.andSequence,
           orSequence |-> m.orSequence, andSequenceInvalid |-> FALSE]
  ELSE IF l.andSequenceInvalid THEN l
  ELSE IF streq(word, AND) THEN l
  ELSE LET wordMatch == index_find(ix, word) IN
       IF wordMatch = NULL
       THEN [l EXCEPT !.andSequenceInvalid = TRUE,
                      !.heap = counters_delete(l.heap, l.andSequence),
                      !.andSequence = NULL]
       ELSE IF l.andSequence = NULL
            THEN LET s == SeedSequence(l.heap, wordMatch)
                 IN [l EXCEPT !.heap = s.heap, !.andSequence = s.andSequence]
            ELSE [l EXCEPT !.heap = intersectCounters(l.heap, l.andSequence, wordMatch)]

\* the for loop of queryEvaluate from token k on
RECURSIVE EvalLoop(_, _, _, _)
EvalLoop(l, ix, ws, k) ==
  IF k > Len(ws) THEN l ELSE EvalLoop(LoopBody(l, ix, ws[k]), ix, ws, k + 1)

\* queryEvaluate(words, t, index) as a function: the heap afterwards and the
\* pointer returned
queryEvaluate(h, ix, ws) ==
  LET l == EvalLoop(EntryLocals(h), ix, ws, 1)
      m == matchMerge(l.heap, l.andSequence, l.orSequence)
  IN [heap |-> m.heap, result |-> m.orSequence]

(***************************************************************************)
(* Querier: queryEvaluate step by step, one action per branch of the loop  *)
(***************************************************************************)
InLoop == pc = "eval" /\ i <= Len(words)

\* the loop body runs on words[i] and i advances
Iterate ==
  /\ LET l == LoopBody(Locals, index, words[i])
     IN /\ heap' = l.heap
        /\ andSequence' = l.andSequence
        /\ orSequence' = l.orSequence
        /\ andSequenceInvalid' = l.andSequenceInvalid
  /\ i' = i + 1
  /\ UNCHANGED <<indexerVars, indexFile, pageDir, cmd, crawlVars, stdin, pos, blocks, pc, index, query, words, result, out>>

EvalOr ==
  /\ InLoop
  /\ streq(words[i], OR)
  /\ Iterate

EvalSkipInvalid ==
  /\ InLoop
  /\ ~streq(words[i], OR)
  /\ andSequenceInvalid
  /\ Iterate

EvalAnd ==
  /\ InLoop
  /\ ~streq(words[i], OR)
  /\ ~andSequenceInvalid
  /\ streq(words[i], AND)
  /\ Iterate

IsSearchStep ==
  /\ InLoop
  /\ ~streq(words[i], OR)
  /\ ~andSequenceInvalid
  /\ ~streq(words[i], AND)

EvalWordNotFound ==
  /\ IsSearchStep
  /\ index_find(index, words[i]) = NULL
  /\ Iterate

EvalWordFirst ==
  /\ IsSearchStep
  /\ index_find(index, words[i]) # NULL
  /\ andSequence = NULL
  /\ Iterate

EvalWordIntersect ==
  /\ IsSearchStep
  /\ index_find(index, words[i]) # NULL
  /\ andSequence # NULL
  /\ Iterate

\* after the loop: the last matchMerge, return orSequence
EvalReturn ==
  /\ pc = "eval"
  /\ i > Len(words)
  /\ LET m == matchMerge(heap, andSequence, orSequence)
     IN /\ heap' = m.heap
        /\ andSequence' = m.andSequence
        /\ orSequence' = m.orSequence
        /\ result' = m.orSequence
  /\ pc' = "print"
  /\ UNCHANGED <<indexerVars, indexFile, pageDir, cmd, crawlVars, stdin, pos, blocks, index, query, words, i,
                 andSequenceInvalid, out>>

\* the outputs processQuery may print for the parsed line p, against the
\* index ix with its counters in h
processQuery(p, h, ix, pages) ==
  IF ~p.validCharacters THEN {<<ErrBadCharacter(p.badCharacter)>>}
  ELSE IF p.syntax # "ok" THEN {p.diagnostic}
  ELSE LET r == queryEvaluate(h, ix, p.words) IN
       IF NonZeroDocs(r.heap, r.result) = {}
       THEN {<<OutQuery(p.words), OutNoMatch>>}
       ELSE {<<OutQuery(p.words)>> \o RankedLines(ds, pages) :
               ds \in SortedScores(r.heap, r.result)}

(***************************************************************************)
(* Querier: processQuery steps 7 and 8, and the rest of main's loop        *)
(***************************************************************************)
\* printRankedResults without the return for printedCount == 0
PrintRankedResults_noReturn(docScores) ==
  /\ pc = "print"
  /\ out' = out \o RankedLines(docScores, pageDir)
  /\ IF FirstUnopened(docScores, pageDir) = 0
     THEN heap' = counters_delete(heap, result) /\ pc' = "returned"
     ELSE heap' = heap /\ pc' = "exit1"
  /\ UNCHANGED <<indexerVars, indexFile, pageDir, cmd, crawlVars, stdin, pos, blocks, index, query, evalVars, result>>

\* printRankedResults, then counters_delete(result); exit(1) when a page
\* file cannot be opened
PrintRankedResults(docScores) ==
  /\ pc = "print"
  /\ IF NonZeroDocs(heap, result) = {}
     THEN /\ out' = Append(out, OutNoMatch)
          /\ heap' = counters_delete(heap, result)
          /\ pc' = "returned"
     ELSE /\ out' = out \o RankedLines(docScores, pageDir)
          /\ IF FirstUnopened(docScores, pageDir) = 0
             THEN heap' = counters_delete(heap, result) /\ pc' = "returned"
             ELSE heap' = heap /\ pc' = "exit1"
  /\ blocks' = IF pc' = "exit1" THEN blocks \cup {"docScores"} ELSE blocks
  /\ UNCHANGED <<indexerVars, indexFile, pageDir, cmd, crawlVars, stdin, pos, index, query, evalVars, result>>

\* printRankedResults passing the null pointer of file_readLine to printf,
\* which is undefined: PrintRankedResults is the outcome in which printf
\* prints (null); here the process is killed at that entry
PrintNullUrlCrash(docScores) ==
  /\ pc = "print"
  /\ NonZeroDocs(heap, result) # {}
  /\ LET stop == FirstUnopened(docScores, pageDir)
         n    == IF stop = 0 THEN Len(docScores) ELSE stop - 1
         bad  == {k \in 1..n : file_readLine(pageDir[docScores[k].docID]).null}
     IN /\ bad # {}
        /\ out' = out \o SubSeq(RankedLines(docScores, pageDir), 1, MinOf(bad))
  /\ pc' = "segv"
  /\ blocks' = blocks \cup {"docScores"}
  /\ UNCHANGED <<indexerVars, indexFile, pageDir, cmd, crawlVars, stdin, pos, index, heap, query, evalVars, result>>

\* main: the separator line, then back to getline
NextQuery ==
  /\ pc = "returned"
  /\ pc' = "read"
  /\ query' = <<>>
  /\ words' = <<>>
  /\ i' = 0
  /\ andSequence' = NULL
  /\ orSequence' = NULL
  /\ andSequenceInvalid' = FALSE
  /\ result' = NULL
  /\ out' = <<>>
  /\ blocks' = {}
  /\ UNCHANGED <<indexerVars, indexFile, pageDir, cmd, crawlVars, stdin, pos, index, heap>>

\* main: getline returns -1; free(query), index_delete(index), return 0
EndOfInput ==
  /\ pc = "read"
  /\ stdin.any \/ pos = Len(stdin.lines)
  /\ pc' = "exit0"
  /\ index' = NoIndex
  /\ heap' = [a \in DOMAIN heap \ {index[w] : w \in DOMAIN index} |-> heap[a]]
  /\ UNCHANGED <<indexerVars, indexFile, pageDir, cmd, crawlVars, stdin, pos, blocks, query, evalVars, result, out>>

(***************************************************************************)
(* Specifications                                                          *)
(***************************************************************************)
\* the lines getline may return next
Readable ==
  IF stdin.any THEN ParsedLines
  ELSE IF pos < Len(stdin.lines) THEN {Parse(stdin.lines[pos + 1])} ELSE {}

\* the querier, from its start on an index file to its exit
Next ==
  \/ LoadIndex
  \/ pc = "read" /\ \E p \in Readable : QueryBadCharacters(p)
  \/ pc = "read" /\ \E p \in Readable : QueryNoTokens(p)
  \/ pc = "read" /\ \E p \in Readable : QueryBadSyntax(p)
  \/ pc = "read" /\ \E p \in Readable : QueryAccepted(p)
  \/ EvalOr
  \/ EvalSkipInvalid
  \/ EvalAnd
  \/ EvalWordNotFound
  \/ EvalWordFirst
  \/ EvalWordIntersect
  \/ EvalReturn
  \/ pc = "print" /\ \E docScores \in SortedScores(heap, result) : PrintRankedResults(docScores)
  \/ NextQuery
  \/ EndOfInput

Spec == Init /\ [][Next]_vars

\* the querier with both outcomes of printing a null URL
NextPages ==
  \/ Next
  \/ pc = "print" /\ \E docScores \in SortedScores(heap, result) : PrintNullUrlCrash(docScores)

SpecPages == InitPages /\ [][NextPages]_vars

\* the querier on an index file that index_save did not write
SpecMalformed == InitMalformed /\ [][Next]_vars

\* the querier on a given standard input; the process keeps running
SpecLines == InitLines /\ [][Next]_vars /\ WF_vars(Next)

\* queryEvaluate alone, on every loaded index and every valid token sequence
NextEval ==
  \/ EvalOr
  \/ EvalSkipInvalid
  \/ EvalAnd
  \/ EvalWordNotFound
  \/ EvalWordFirst
  \/ EvalWordIntersect
  \/ EvalReturn

SpecEval == InitEval /\ [][NextEval]_vars

\* the indexer builds and saves an index, and the saved file is loaded
NextRoundTrip ==
  \/ \E word \in InsertWords, docID \in InsertDocs : IndexerInsert(word, docID)
  \/ \E orders \in SaveOrders(built) : IndexerSave(orders)
  \/ LoadIndex
  \/ LoadIndexOverflow

SpecRoundTrip == InitIndexer /\ [][NextRoundTrip]_vars

\* calls of index.c in any order
NextIndexCalls ==
  \/ IndexNewCall
  \/ \E word \in CallWords, docID \in CallDocs : IndexInsertCall(word, docID)
  \/ \E word \in CallWords, docID \in CallDocs, count \in CallCounts :
        IndexSetCall(word, docID, count)
  \/ IndexLoadCall

SpecIndexCalls == InitIndexCalls /\ [][NextIndexCalls]_vars

\* the indexer, from its command line to its exit
NextIndexer ==
  \/ IndexerParseArgs
  \/ IndexerBuild
  \/ \E orders \in SaveOrders(built) : IndexerSave(orders)

SpecIndexer == InitIndexerMain /\ [][NextIndexer]_vars

\* the indexer from indexBuild on, turn by turn; main is one sequential
\* process, a step that can be taken is taken
NextIndexBuild ==
  \/ IndexBuildPage
  \/ IndexBuildEnd
  \/ \E orders \in SaveOrders(built) : IndexerSave(orders)

SpecIndexBuild == InitIndexBuild /\ [][NextIndexBuild]_vars /\ WF_vars(NextIndexBuild)

\* the crawler, from the first turn of the loop of crawl to its end
NextCrawler ==
  \/ \E page \in BagToSet(pagesToCrawl) : CrawlFetched(page)
  \/ \E page \in BagToSet(pagesToCrawl) : CrawlFetchFailed(page)
  \/ CrawlDone

SpecCrawler == InitCrawler /\ [][NextCrawler]_vars

\* crawl is one sequential loop: a turn that can be taken is taken
SpecCrawlerLive == InitCrawler /\ [][NextCrawler]_vars /\ WF_vars(NextCrawler)

(***************************************************************************)
(* Properties of queryEvaluate                                             *)
(***************************************************************************)
AllDocs == 0..MaxDoc

\* the count the index stores for word and document d, 0 when there is none
Stored(word, d) == counters_get(heap, index_find(index, word), d)

\* the score of document d in the result queryEvaluate returned
Score(d) == counters_get(heap, result, d)

\* the AND-chains of a token sequence: the search words between the "or"s
RECURSIVE ChainsOf(_, _)
ChainsOf(ts, chain) ==
  IF ts = <<>> THEN <<chain>>
  ELSE IF Head(ts) = OR THEN <<chain>> \o ChainsOf(Tail(ts), <<>>)
  ELSE IF Head(ts) = AND THEN ChainsOf(Tail(ts), chain)
  ELSE ChainsOf(Tail(ts), Append(chain, Head(ts)))

ChainIndexed(chain) == \A k \in DOMAIN chain : chain[k] \in DOMAIN index

\* what a chain contributes to document d
ChainScore(chain, d) ==
  IF ChainIndexed(chain)
  THEN MinOf({Stored(chain[k], d) : k \in DOMAIN chain})
  ELSE 0

ExpectedScore(ts, d) ==
  LET chains == ChainsOf(ts, <<>>)
      scores == [k \in DOMAIN chains |-> ChainScore(chains[k], d)]
  IN SumOver(scores, DOMAIN chains)

\* C1: the result of queryEvaluate gives every document the sum, over the
\* AND-chains whose words are all indexed, of the minimum of the chain's
\* words' stored counts; a chain with an unindexed word contributes 0
C1_SumOfChainMinima ==
  pc = "print" => \A d \in AllDocs : Score(d) = ExpectedScore(words, d)

\* a query with a chain that holds an unindexed word and a chain of two
\* indexed words with different counts for a document, which scores the minimum
C1_Witness ==
  /\ pc = "print"
  /\ LET chains == ChainsOf(words, <<>>)
     IN /\ \E k \in DOMAIN chains : ~ChainIndexed(chains[k])
        /\ \E k \in DOMAIN chains, d \in Docs :
             /\ ChainIndexed(chains[k])
             /\ Len(chains[k]) = 2
             /\ Stored(chains[k][1], d) > Stored(chains[k][2], d)
             /\ Stored(chains[k][2], d) > 0
             /\ Score(d) = Stored(chains[k][2], d)

\* the scores of the result of queryEvaluate on the token sequence ts,
\* evaluated against the index of the current state
ScoresOf(ts) ==
  LET r == queryEvaluate(heap, index, ts)
  IN [d \in AllDocs |-> counters_get(r.heap, r.result, d)]

IsPrecedenceQuery ==
  /\ Len(words) = 5
  /\ words[2] = OR
  /\ words[4] = AND
  /\ \A k \in {1, 3, 5} : words[k] \notin {AND, OR}

\* C2: "a or b and c" scores every document with the sum of its score for
\* "a" and its score for "b and c"
C2_AndBindsTighter ==
  (pc = "print" /\ IsPrecedenceQuery) =>
     \A d \in AllDocs :
        Score(d) = ScoresOf(<<words[1]>>)[d] + ScoresOf(<<words[3], AND, words[5]>>)[d]

\* a query "a or b and c" whose result differs from the intersection of the
\* result of "a or b" with the counters of c
C2_Witness ==
  /\ pc = "print"
  /\ IsPrecedenceQuery
  /\ words[5] \in DOMAIN index
  /\ \E d \in AllDocs :
        /\ Score(d) > 0
        /\ Score(d) # Min2(ScoresOf(<<words[1], OR, words[3]>>)[d], Stored(words[5], d))

IsOrQuery ==
  /\ Len(words) = 3
  /\ words[2] = OR
  /\ words[1] \in DOMAIN index
  /\ words[3] \in DOMAIN index

\* C3: for indexed words w1 and w2, "w1 or w2" scores every document with the
\* sum of the two stored counts
C3_OrSums ==
  (pc = "print" /\ IsOrQuery) =>
     \A d \in AllDocs : Score(d) = Stored(words[1], d) + Stored(words[3], d)

\* two different words that both hold a document, whose score is the sum
C3_Witness ==
  /\ pc = "print"
  /\ IsOrQuery
  /\ words[1] # words[3]
  /\ \E d \in Docs :
        /\ Stored(words[1], d) > 0
        /\ Stored(words[3], d) > 0
        /\ Score(d) = Stored(words[1], d) + Stored(words[3], d)

\* the entries of a counters object, none for NULL
Entries(h, p) == IF p = NULL THEN <<>> ELSE h[p]

EntriesOf(ts) ==
  LET r == queryEvaluate(heap, index, ts) IN Entries(r.heap, r.result)

\* C5: "w", "w and w" and "w w w" give the same entries with the same counts
C5_AndIdentity ==
  (pc = "print" /\ Len(words) = 1) =>
     /\ EntriesOf(<<words[1], AND, words[1]>>) = Entries(heap, result)
     /\ EntriesOf(<<words[1], words[1], words[1]>>) = Entries(heap, result)

\* a one-word query on an indexed word with a positive score
C5_Witness ==
  /\ pc = "print"
  /\ Len(words) = 1
  /\ result # NULL
  /\ \E d \in Docs : Score(d) > 1
  /\ EntriesOf(<<words[1], AND, words[1]>>) = Entries(heap, result)

IsDisjointAndQuery ==
  /\ Len(words) = 3
  /\ words[2] = AND
  /\ words[1] \in DOMAIN index
  /\ words[3] \in DOMAIN index
  /\ \A d \in AllDocs : Stored(words[1], d) = 0 \/ Stored(words[3], d) = 0

\* C4: for indexed words w1 and w2 with no document in common, "w1 and w2"
\* scores no document and the querier prints "No documents match."
C4_DisjointAndMatchesNothing ==
  IsDisjointAndQuery =>
     /\ pc = "print" => \A d \in AllDocs : Score(d) = 0
     /\ pc = "returned" => out = <<OutQuery(words), OutNoMatch>>

\* "w1 and w2" on two indexed words without a common document has been answered
C4_Witness ==
  /\ pc = "returned"
  /\ IsDisjointAndQuery
  /\ words[1] # words[3]
  /\ out = <<OutQuery(words), OutNoMatch>>

(***************************************************************************)
(* Properties of the index file                                            *)
(***************************************************************************)
\* the count the indexer's index stores for word and document d
BuiltStored(word, d) == counters_get(built.heap, index_find(built.ix, word), d)

\* C6: loading the file index_save wrote gives an index with the counts of
\* the index that was saved, and with no other word or posting
C6_RoundTrip ==
  (ipc = "saved" /\ pc # "start") =>
     /\ pc = "read"
     /\ DOMAIN index = DOMAIN built.ix
     /\ \A w \in DOMAIN index :
          DOMAIN heap[index[w]] = DOMAIN built.heap[built.ix[w]]
     /\ \A w \in InsertWords, d \in AllDocs : Stored(w, d) = BuiltStored(w, d)

(***************************************************************************)
(* Properties of the querier                                               *)
(***************************************************************************)
\* the entries of every word of the index, and whether they are still live
StoredCounts ==
  [w \in DOMAIN index |->
     IF index[w] \in DOMAIN heap
     THEN [live |-> TRUE, counts |-> heap[index[w]]]
     ELSE [live |-> FALSE, counts |-> <<>>]]

\* C7: from index_load until the index is deleted at exit, no step of
\* processing a query changes the entries or counts of any word of the index
C7_QueryingIsReadOnly ==
  [][(pc # "start" /\ pc' # "exit0") => StoredCounts' = StoredCounts]_vars

\* "w1 and w2" was evaluated and its accumulator was narrowed below the
\* counts the index stores for w1
C7_Witness ==
  /\ pc = "print"
  /\ Len(words) = 3
  /\ words[2] = AND
  /\ words[1] \in DOMAIN index
  /\ words[3] \in DOMAIN index
  /\ result # NULL
  /\ \E d \in Docs : Score(d) < Stored(words[1], d)

\* C8: queryEvaluate only runs on a token sequence that satisfies the syntax
\* invariant, and a line whose tokens do not satisfy it prints nothing on stdout
C8_SyntaxRejectedBeforeEvaluation ==
  /\ pc \in {"eval", "print"} => SyntaxInvariant(words)
  /\ (pc = "returned" /\ ~SyntaxInvariant(words)) =>
        \A k \in DOMAIN out : out[k].fd = "stderr"
  /\ \A ts \in {<<AND, Dog>>, <<Dog, AND>>, <<Dog, AND, AND, Cat>>, <<AND>>, <<OR>>, <<>>} :
        (pc = "returned" /\ words = ts) => \A k \in DOMAIN out : out[k].fd = "stderr"

\* "dog and and cat" was rejected with the diagnostic for two operators in a row
C8_Witness ==
  /\ pc = "returned"
  /\ words = <<Dog, AND, AND, Cat>>
  /\ out = <<ErrConsecutive(AND, AND)>>

Permitted == LowerSet \cup UpperSet \cup {" ", "\t", "\n", "\r", "\f"}

Forbidden(line) == {k \in DOMAIN line : line[k] \notin Permitted}

\* C9: a line with a character that is neither a letter nor whitespace is
\* given up with one diagnostic naming the first such character, without
\* being tokenized, echoed or evaluated; any other line passes this check
C9_CharacterValidation ==
  query # <<>> =>
     IF Forbidden(query) # {}
     THEN /\ pc = "returned"
          /\ words = <<>>
          /\ out = <<ErrBadCharacter(query[MinOf(Forbidden(query))])>>
     ELSE \A k \in DOMAIN out : out[k].kind # "bad character"

\* a line with letters before "&-" was given up naming "&"
C9_Witness ==
  /\ pc = "returned"
  /\ Len(query) > 3
  /\ query[1] \in LowerSet
  /\ Forbidden(query) # {}
  /\ out = <<ErrBadCharacter("&")>>

AllUnindexed(ts) ==
  \A k \in DOMAIN ts : ts[k] \in {AND, OR} \/ ts[k] \notin DOMAIN index

\* C10: a valid query whose search words are all unindexed makes queryEvaluate
\* return NULL, and the querier prints the echo and "No documents match." only
C10_NoMatchFormatting ==
  (SyntaxInvariant(words) /\ AllUnindexed(words)) =>
     /\ pc = "print" => result = NULL
     /\ pc = "returned" => out = <<OutQuery(words), OutNoMatch>>

\* a query of two unindexed words joined by "or" was answered, while the
\* index holds another word
C10_Witness ==
  /\ pc = "returned"
  /\ Len(words) = 3
  /\ words[2] = OR
  /\ SyntaxInvariant(words)
  /\ AllUnindexed(words)
  /\ index # NoIndex
  /\ out = <<OutQuery(words), OutNoMatch>>

(***************************************************************************)
(* Properties of printRankedResults and of main's loop                     *)
(***************************************************************************)
\* the lines the step from this state to the next one printed
Printed == SubSeq(out', Len(out) + 1, Len(out'))

\* C11: the result lines printed are the entries of the result with a count
\* above 0, each document once with its score, in non-increasing order of
\* score, and the header announces as many documents as lines follow it
C11_Ranking ==
  [][(pc = "print" /\ pc' = "returned" /\ \E d \in AllDocs : Score(d) > 0) =>
       /\ Len(Printed) >= 2
       /\ Printed[1] = OutMatches(Len(Printed) - 1)
       /\ \A k \in 2..Len(Printed) :
             /\ Printed[k].kind = "score doc:"
             /\ Printed[k].score = Score(Printed[k].doc)
             /\ Printed[k].score > 0
       /\ \A d \in AllDocs :
             Score(d) > 0 => Cardinality({k \in 2..Len(Printed) : Printed[k].doc = d}) = 1
       /\ \A j, k \in 2..Len(Printed) :
             j < k => Printed[j].score >= Printed[k].score]_vars

\* two documents were printed, the one with the higher number and the
\* higher score first
C11_Witness ==
  /\ pc = "returned"
  /\ Len(out) = 4
  /\ out[2] = OutMatches(2)
  /\ out[3].kind = "score doc:"
  /\ out[4].kind = "score doc:"
  /\ out[3].doc > out[4].doc
  /\ out[3].score > out[4].score

\* the line getline returned was rejected by the character or syntax check
Rejected == query # <<>> /\ (~Parse(query).validCharacters \/ Parse(query).syntax # "ok")

\* C12: on a given standard input every line is read once and in order, a
\* rejected line is followed by the next one, every line's output is what
\* processQuery prints for that line alone against the loaded index, and the
\* querier ends with status 0 after the last line and not before
C12_ValidationErrorsRecoverable ==
  /\ [][pos' = pos \/ (pc = "read" /\ pos' = pos + 1 /\ query' = stdin.lines[pos'])]_vars
  /\ [](pc = "returned" => out \in processQuery(Parse(query), heap, index, pageDir))
  /\ [](pc \notin {"exit1", "abort"})
  /\ [](pc = "exit0" => pos = Len(stdin.lines))
  /\ <>(pc = "exit0")

\* the first line was rejected for a bad character and the second line was
\* answered with a ranked result
C12_Witness ==
  /\ pc = "returned"
  /\ pos = 2
  /\ ~Parse(stdin.lines[1]).validCharacters
  /\ \E k \in DOMAIN out : out[k].kind = "score doc:"

(***************************************************************************)
(* Properties of index_load on files that index_save did not write         *)
(***************************************************************************)
\* a line of the index file format: a word, then one or more docID count pairs
WellFormedLine(l) ==
  /\ Len(l) >= 3
  /\ Len(l) % 2 = 1
  /\ l[1].kind = "word"
  /\ \A k \in 2..Len(l) : l[k].kind = "int"

Malformed(file) == \E k \in DOMAIN file : ~WellFormedLine(file[k])

\* C13: index_load on a malformed index file fails: main gets no index from
\* it and does not go on to read queries
C13_MalformedIndexFails ==
  [][(pc = "start" /\ Malformed(indexFile)) => pc' # "read"]_vars

(***************************************************************************)
(* Properties of printRankedResults on a damaged page directory            *)
(***************************************************************************)
\* page file d is missing, or its first line cannot be read
Unusable(d) == d \notin DOMAIN pageDir \/ pageDir[d] = <<>>

\* C14: when printRankedResults meets a matched document whose page file is
\* missing or whose first line cannot be read, the querier ends with a
\* non-zero status and has printed no result line for that document
C14_PageFileInconsistencyFatal ==
  [][(pc = "print" /\ \E d \in NonZeroDocs(heap, result) : Unusable(d))
       => /\ pc' \in {"exit1", "segv"}
          /\ \A k \in DOMAIN out' :
                out'[k].kind = "score doc:" => ~Unusable(out'[k].doc)]_vars

(***************************************************************************)
(* Properties of queryTokenize                                             *)
(***************************************************************************)
\* the letter c in the other case, any other character unchanged
CaseSwapped(c) ==
  IF c \in UpperSet THEN LowerAlpha[CHOOSE k \in 1..26 : UpperAlpha[k] = c]
  ELSE IF c \in LowerSet THEN UpperAlpha[CHOOSE k \in 1..26 : LowerAlpha[k] = c]
  ELSE c

\* the lines that differ from line in the case of one letter, or by one more
\* blank or tab at its start or next to whitespace
Variants(line) ==
  {[line EXCEPT ![k] = CaseSwapped(line[k])] : k \in DOMAIN line}
  \cup {SubSeq(line, 1, k) \o <<w>> \o SubSeq(line, k + 1, Len(line)) :
          k \in {j \in 0..(Len(line) - 1) :
                   j = 0 \/ isspace(line[j]) \/ isspace(line[j + 1])},
          w \in {" ", "\t"}}

\* C15: the tokens of a line are its maximal runs of characters that are not
\* whitespace, in lower case; a line that differs from it only in the case of
\* letters and in the amount of whitespace has the same tokens and the same
\* outcome of validation, and a line of whitespace alone has no tokens.
\* Tokenization and validation do not read the index: every line is looked at
\* once, in the run on the empty index
C15_TokenizationNormalForm ==
  (pc = "returned" /\ index = NoIndex) =>
    \A p \in {Parse(query)} :
      /\ \A v \in Variants(query) : \A pv \in {Parse(v)} :
            /\ pv.validCharacters = p.validCharacters
            /\ pv.badCharacter = p.badCharacter
            /\ pv.words = p.words
            /\ pv.syntax = p.syntax
            /\ pv.diagnostic = p.diagnostic
      /\ \A k \in DOMAIN p.words :
            /\ p.words[k] # <<>>
            /\ \A j \in DOMAIN p.words[k] :
                  p.words[k][j] \notin UpperSet /\ ~isspace(p.words[k][j])
      /\ (\A k \in DOMAIN query : isspace(query[k]))
            => queryTokenize(query, MaxWordsOf(query)) = <<>>

\* a line with an upper-case letter and runs of whitespace has been tokenized
C15_Witness ==
  /\ pc = "returned"
  /\ index = NoIndex
  /\ query = Cat \o <<" ">> \o PaddedDog \o <<" ">> \o Cat \o <<"\n">>
  /\ words = <<Cat, Dog, Cat>>

(***************************************************************************)
(* Properties of the memory processQuery allocates                         *)
(***************************************************************************)
\* the counters objects that belong to the loaded index
IndexCounters == {index[w] : w \in DOMAIN index}

\* C16: when processQuery returns, every block it allocated for the line has
\* been freed: no array of the call and no counters object but those of the
\* index is live
C16_NoMemoryLeaks ==
  pc = "returned" => blocks = {} /\ DOMAIN heap = IndexCounters

(***************************************************************************)
(* Properties of the diagnostics of a rejected line                        *)
(***************************************************************************)
\* the kind of diagnostic of each failed check of a non-empty token sequence
DiagnosticKind ==
  [first |-> "cannot be first", last |-> "cannot be last", consecutive |-> "consecutive"]

\* processQuery has returned from a line it rejected with the parse p, and
\* what it printed is one diagnostic, of the kind of the check that failed
OneDiagnostic(p) ==
  /\ Len(out) = 1
  /\ out[1].fd = "stderr"
  /\ ~p.validCharacters => out[1].kind = "bad character"
  /\ (p.validCharacters /\ p.syntax # "empty") => out[1].kind = DiagnosticKind[p.syntax]
  /\ (p.validCharacters /\ p.syntax = "empty")
       => out[1].kind \notin {"bad character", "cannot be first", "cannot be last", "consecutive"}

Lowered(word) ==
  [k \in DOMAIN word |-> IF word[k] \in UpperSet THEN CaseSwapped(word[k]) ELSE word[k]]

\* the words of page file d, none if the page cannot be loaded
TokensOf(d) == IF Len(pageDir[d]) < 3 THEN <<>> ELSE pageDir[d][3]

\* C18: once the indexer has built its index, the count of every lower-case
\* word of three characters or more for every document is the number of
\* words of that page that are that word in lower case, and no shorter word
\* is a key of the index
C18_IndexCountsOccurrences ==
  ipc \in {"build", "saved"} =>
    /\ \A d \in DOMAIN pageDir :
         \A w \in {Lowered(r) : r \in PageWords} \cup IndexWords :
           Len(w) >= 3 =>
             counters_get(built.heap, index_find(built.ix, w), d)
               = Cardinality({k \in DOMAIN TokensOf(d) : Lowered(TokensOf(d)[k]) = w})
    /\ \A w \in DOMAIN built.ix : Len(w) >= 3

\* the index was built from a page with cat in two spellings and a page with
\* a short word
C18_Witness ==
  /\ ipc = "saved"
  /\ DOMAIN pageDir = {1, 2}
  /\ TokensOf(1) = <<Cat, <<"C", "a", "T">>>>
  /\ TokensOf(2) = <<<<"a", "t">>, Dog>>
  /\ counters_get(built.heap, index_find(built.ix, Cat), 1) = 2

\* the command line has the wrong number of arguments, names a directory
\* without .crawler, or names an index file that cannot be written
BadCommand == cmd.argc # 3 \/ ~cmd.crawlerDir \/ ~cmd.writable

\* C19: on a bad command line the indexer exits with status 1 from parseArgs,
\* with nothing built and the index file as it was; on a valid one it never
\* exits with status 1 and ends, with status 0, after index_save
C19_ArgumentErrorsPreFlight ==
  /\ [][ipc = "start" =>
          IF BadCommand
          THEN ipc' = "exit1" /\ indexFile' = indexFile /\ built' = built
          ELSE ipc' = "parsed"]_vars
  /\ [](ipc = "exit1" => BadCommand /\ built = index_new(500))
  /\ [](ipc \in {"parsed", "build", "saved"} => ~BadCommand)
  /\ [][ipc = "exit1" => ipc' = "exit1" /\ indexFile' = indexFile]_vars

\* the indexer has exited with status 1 on a directory without .crawler and
\* left the index file of an earlier run as it was
C19_Witness ==
  /\ ipc = "exit1"
  /\ cmd = [argc |-> 3, crawlerDir |-> FALSE, writable |-> TRUE]
  /\ indexFile = SharedDocFile

(***************************************************************************)
(* Properties of the crawler                                               *)
(***************************************************************************)
\* C20: while the crawler runs and when it has ended, the page files are
\* those of the IDs 1..k for the k pages fetched so far, file n holds the
\* n-th page fetched, the next ID is k + 1, and a turn of the loop that
\* fetches no page leaves the next ID and the page files as they are
C20_SequentialDocIDs ==
  /\ [](/\ DOMAIN pageDir = 1..Len(fetched)
        /\ crawlDocID = Len(fetched) + 1
        /\ \A n \in DOMAIN pageDir : pageDir[n][1] = fetched[n].url)
  /\ [][fetched' = fetched => crawlDocID' = crawlDocID /\ pageDir' = pageDir]_vars
  /\ [][fetched' # fetched =>
          /\ crawlDocID' = crawlDocID + 1
          /\ DOMAIN pageDir' = DOMAIN pageDir \cup {crawlDocID}
          /\ \A n \in DOMAIN pageDir : pageDir'[n] = pageDir[n]]_vars

\* the crawl has ended with three pages taken from the bag, one of which
\* could not be fetched, and the two others saved as 1 and 2
C20_Witness ==
  /\ cpc = "done"
  /\ DOMAIN pageDir = {1, 2}
  /\ Cardinality(pagesSeen) = 3

\* C21: the crawl loop eventually finds the bag empty and ends, and then
\* every page that was inserted into the bag has been extracted exactly as
\* often as it was inserted
C21_CrawlStopsOnEmptyBag ==
  /\ <>(cpc = "done")
  /\ [](cpc = "done" => pagesToCrawl = EmptyBag /\ extracted = inserted)

(***************************************************************************)
(* Properties of queryEvaluate, continued                                  *)
(***************************************************************************)
\* the token sequence of the chains cs, with "or" between them
RECURSIVE JoinChains(_)
JoinChains(cs) ==
  IF cs = <<>> THEN <<>>
  ELSE IF Len(cs) = 1 THEN cs[1]
  ELSE cs[1] \o <<OR>> \o JoinChains(Tail(cs))

\* the token sequence ts without the chains that hold an unindexed word
WithoutFailedChains(ts) == JoinChains(SelectSeq(ChainsOf(ts, <<>>), ChainIndexed))

\* C22: a search word that is not found sets andSequenceInvalid and leaves
\* no AND sequence; while andSequenceInvalid is set every token but "or" is
\* skipped, changing nothing; "or" clears it with no AND sequence left; and
\* the result gives every document the score it gets from the query without
\* the chains that hold an unindexed word
C22_FailedChainNotRevived ==
  /\ [][(IsSearchStep /\ index_find(index, words[i]) = NULL)
          => andSequenceInvalid' /\ andSequence' = NULL]_vars
  /\ [][(InLoop /\ andSequenceInvalid /\ ~streq(words[i], OR))
          => /\ andSequenceInvalid' /\ andSequence' = NULL
             /\ orSequence' = orSequence /\ heap' = heap /\ i' = i + 1]_vars
  /\ [][(InLoop /\ streq(words[i], OR))
          => ~andSequenceInvalid' /\ andSequence' = NULL]_vars
  /\ [](andSequenceInvalid => andSequence = NULL)
  /\ [](pc = "print" =>
          \A d \in AllDocs : Score(d) = ScoresOf(WithoutFailedChains(words))[d])

\* the query emu and cat or dog has been evaluated on an index without emu
\* in which document 1 holds cat and dog, and document 1 scores what dog gives
C22_Witness ==
  /\ pc = "print"
  /\ words = <<Emu, AND, Cat, OR, Dog>>
  /\ Emu \notin DOMAIN index
  /\ Stored(Cat, 1) > 0
  /\ Stored(Dog, 1) > 0
  /\ Score(1) = Stored(Dog, 1)

\* the counters objects queryEvaluate has allocated and not freed
LiveAccumulators == DOMAIN heap \ IndexCounters

\* C23: in every state of queryEvaluate andSequence and orSequence are NULL
\* or live counters objects that are not objects of the index and not each
\* other; the only objects a step frees are the AND sequence it started
\* with, which was live; a step of matchMerge leaves andSequence NULL; no
\* step frees or changes an object of the index; and when queryEvaluate has
\* returned the only live accumulator is the result
C23_AccumulatorOwnership ==
  /\ [](pc = "eval" =>
          /\ andSequence = NULL \/ andSequence \in LiveAccumulators
          /\ orSequence = NULL \/ orSequence \in LiveAccumulators
          /\ andSequence # NULL => andSequence # orSequence
          /\ LiveAccumulators = {andSequence, orSequence} \ {NULL})
  /\ [][pc = "eval" =>
          /\ DOMAIN heap \ DOMAIN heap' \subseteq {andSequence} \ {NULL}
          /\ \A p \in IndexCounters : p \in DOMAIN heap' /\ heap'[p] = heap[p]]_vars
  /\ [][(pc = "eval" /\ (i > Len(words) \/ streq(words[i], OR)))
          => andSequence' = NULL]_vars
  /\ [](pc = "print" =>
          andSequence = NULL /\ LiveAccumulators = {result} \ {NULL})

\* cat and emu or dog has been evaluated on an index with cat and dog and
\* without emu: an AND sequence was created and freed on emu, another was
\* created for dog and merged, and the result is live
C23_Witness ==
  /\ pc = "print"
  /\ words = <<Cat, AND, Emu, OR, Dog>>
  /\ Emu \notin DOMAIN index
  /\ {Cat, Dog} \subseteq DOMAIN index
  /\ result \in LiveAccumulators

(***************************************************************************)
(* Properties of index.c                                                   *)
(***************************************************************************)
\* the (word, docID, count) triples of a well-formed file, in file order
RECURSIVE TriplesOf(_)
TriplesOf(file) ==
  IF file = <<>> THEN <<>>
  ELSE [k \in 1..((Len(Head(file)) - 1) \div 2) |->
          <<Head(file)[1].word, Head(file)[2 * k].num, Head(file)[2 * k + 1].num>>]
       \o TriplesOf(Tail(file))

\* the count of the last triple of the file for word and docID d, 0 if none
LastCount(file, word, d) ==
  LET ts   == TriplesOf(file)
      hits == {k \in DOMAIN ts : ts[k][1] = word /\ ts[k][2] = d}
  IN IF hits = {} THEN 0
     ELSE ts[CHOOSE k \in hits : \A j \in hits : j <= k][3]

\* the counters of a word of the indexer's index, none for a word it lacks
BuiltEntries(word) ==
  IF word \in DOMAIN built.ix THEN built.heap[built.ix[word]] ELSE <<>>

\* C24: the index index_load returns for a well-formed file with valid
\* numbers stores for every word and document the count of the last pair
\* the file holds for them, whatever the file holds for other words and
\* whatever index was in use before, and stores nothing else
C24_LoadSetsCounts ==
  [][(ipc' = "load" /\ ~Malformed(indexFile)
        /\ \A k \in DOMAIN TriplesOf(indexFile) :
              TriplesOf(indexFile)[k][2] >= 0 /\ TriplesOf(indexFile)[k][3] >= 0)
      => /\ \A w \in IndexWords, d \in AllDocs :
              BuiltStored(w, d)' = LastCount(indexFile, w, d)
         /\ DOMAIN built'.ix = {TriplesOf(indexFile)[k][1] : k \in DOMAIN TriplesOf(indexFile)}]_vars

\* index_load has read cat 1 2, dog 2 1 and then cat 1 1 on a later line,
\* and the index holds 1 for cat in document 1
C24_Witness ==
  /\ ipc = "load"
  /\ indexFile = FileOf(<<<<Cat, 1, 2>>, <<Dog, 2, 1>>, <<Cat, 1, 1>>>>)
  /\ Len(indexFile) = 3
  /\ BuiltStored(Cat, 1) = 1
  /\ BuiltStored(Dog, 2) = 1

\* C25: every word that is a key of the index has a live counters object
\* with at least one entry, and a call of index_insert or index_set,
\* rejected or not, keeps every word and every entry the index had
C25_IndexInvariant ==
  /\ [](\A w \in DOMAIN built.ix :
          built.ix[w] \in DOMAIN built.heap /\ DOMAIN BuiltEntries(w) # {})
  /\ [][ipc' \in {"insert", "set"} =>
          \A w \in DOMAIN built.ix :
            /\ w \in DOMAIN built'.ix
            /\ DOMAIN BuiltEntries(w) \subseteq DOMAIN BuiltEntries(w)']_vars

\* after calls of index_set, the last one rejected or with count 0, cat is
\* a key with the one entry of document 1, whose count is 0
C25_Witness ==
  /\ ipc = "set"
  /\ DOMAIN built.ix = {Cat}
  /\ DOMAIN BuiltEntries(Cat) = {1}
  /\ BuiltStored(Cat, 1) = 0

(***************************************************************************)
(* Properties of the words array of processQuery                           *)
(***************************************************************************)
\* lines of the letter a and blanks, without a newline at the end: the lines
\* with the most tokens for their length
ShortLines == SeqsUpTo({"a", " "}, MaxShortLine)

\* the words array of maxWords pointers holds every token of the line
Fits(line) ==
  \A all \in {queryTokenize(line, Len(line) + 1)} :
    /\ Len(all) <= MaxWordsOf(line)
    /\ queryTokenize(line, MaxWordsOf(line)) = all

\* C26: every line that passes isValidCharacters has at most
\* strlen(line) / 2 + 1 tokens, and queryTokenize with that maxWords stores
\* all of them: for the line processQuery has returned from (every line is
\* looked at once, in the run on the empty index), and for every short line
\* of single letters and blanks that getline may return next
C26_TokenBufferBound ==
  /\ (pc = "returned" /\ index = NoIndex /\ isValidCharacters(query)) => Fits(query)
  /\ (pc = "read" /\ index = NoIndex) => \A line \in ShortLines : Fits(line)

\* processQuery has returned from a line of four tokens of two letters
C26_Witness ==
  /\ pc = "returned"
  /\ index = NoIndex
  /\ Len(query) = 12
  /\ words = <<OR, OR, OR, OR>>

(***************************************************************************)
(* Properties of indexBuild                                                *)
(***************************************************************************)
\* the smallest docID whose page file cannot be opened
FirstMissing == CHOOSE d \in 1..(MaxDoc + 2) :
                  d \notin DOMAIN pageDir /\ \A e \in 1..(d - 1) : e \in DOMAIN pageDir

\* the index holds for document d what one pass over its page gives
IndexedOnce(d) ==
  \A w \in {Lowered(r) : r \in PageWords} :
    BuiltStored(w, d) =
      IF Len(w) >= 3
      THEN Cardinality({k \in DOMAIN TokensOf(d) : Lowered(TokensOf(d)[k]) = w})
      ELSE 0

\* the index holds nothing for document d
NotIndexed(d) == \A w \in DOMAIN built.ix : d \notin DOMAIN BuiltEntries(w)

\* C27: in every turn of its loop indexBuild has indexed the documents below
\* docID once each and no other; a turn on a file that opens goes on to
\* docID + 1 and leaves what the index holds for every other document; a
\* turn on a file that does not open ends the loop with the index as it is,
\* at the smallest missing ID; documents from there on are never indexed;
\* the indexer then saves and exits with status 0, with an empty index file
\* when there is no file 1
C27_IndexBuildInOrder ==
  /\ [](ipc = "parsed" =>
          /\ crawlDocID <= FirstMissing
          /\ \A d \in DOMAIN pageDir :
                IF d < crawlDocID THEN IndexedOnce(d) ELSE NotIndexed(d))
  /\ [][(ipc = "parsed" /\ crawlDocID \in DOMAIN pageDir) =>
          /\ ipc' = "parsed"
          /\ crawlDocID' = crawlDocID + 1
          /\ \A d \in DOMAIN pageDir \ {crawlDocID} : \A w \in IndexWords :
                BuiltStored(w, d)' = BuiltStored(w, d)]_vars
  /\ [][(ipc = "parsed" /\ crawlDocID \notin DOMAIN pageDir) =>
          ipc' = "build" /\ built' = built /\ crawlDocID' = crawlDocID]_vars
  /\ [](ipc \in {"build", "saved"} =>
          /\ crawlDocID = FirstMissing
          /\ \A d \in DOMAIN pageDir :
                IF d < FirstMissing THEN IndexedOnce(d) ELSE NotIndexed(d))
  /\ [](ipc = "saved" /\ 1 \notin DOMAIN pageDir => indexFile = <<>>)
  /\ <>(ipc = "saved")

\* the indexer has exited on a directory with the files 1 and MaxDoc + 1:
\* document 1 is indexed, the document after the gap is not
C27_Witness ==
  /\ ipc = "saved"
  /\ DOMAIN pageDir = {1, MaxDoc + 1}
  /\ BuiltStored(Cat, 1) = 1
  /\ NotIndexed(MaxDoc + 1)
  /\ indexFile # <<>>

(***************************************************************************)
(* Properties of the crawler, continued                                    *)
(***************************************************************************)
\* the URLs of the pages of the bag b
URLsOf(b) == {p.url : p \in BagToSet(b)}

\* C28: each URL has been inserted into the bag at most once, the seed
\* included, as one page; the URLs inserted are the keys of the hashtable,
\* all of them internal and normalized; the pages extracted and the pages
\* fetched are pages that were inserted, no URL has been fetched twice and
\* no two page files hold the same URL
C28_NoDuplicateURLs ==
  /\ \A p \in BagToSet(inserted) :
        /\ CopiesIn(p, inserted) = 1
        /\ isInternalURL(p.url)
        /\ normalizeURL(p.url) = [null |-> FALSE, str |-> p.url]
  /\ \A p, q \in BagToSet(inserted) : p.url = q.url => p = q
  /\ URLsOf(inserted) = pagesSeen
  /\ extracted \sqsubseteq inserted
  /\ \A m \in DOMAIN fetched : BagIn(fetched[m], extracted)
  /\ \A m, n \in DOMAIN fetched : fetched[m].url = fetched[n].url => m = n
  /\ \A m, n \in DOMAIN pageDir : pageDir[m][1] = pageDir[n][1] => m = n

\* the crawl has ended; the seed page links to A.html in both spellings, to
\* itself and A.html links back to the seed and to another site: A.html
\* was inserted, fetched and saved once
C28_Witness ==
  /\ cpc = "done"
  /\ web[SeedURL] = <<"http://cs50tse.cs.dartmouth.edu/tse/./A.html",
                      "http://cs50tse.cs.dartmouth.edu/tse/A.html">>
  /\ web["http://cs50tse.cs.dartmouth.edu/tse/A.html"] =
       <<SeedURL, "http://www.dartmouth.edu/">>
  /\ maxDepth = MaxMaxDepth
  /\ Len(fetched) = 2
  /\ URLsOf(inserted) = {SeedURL, "http://cs50tse.cs.dartmouth.edu/tse/A.html"}
  /\ DOMAIN pageDir = {1, 2}
  /\ pageDir[2][1] = "http://cs50tse.cs.dartmouth.edu/tse/A.html"

\* the pages a step takes from the bag and the pages it inserts
Taken == BagToSet(extracted' (-) extracted)
Added == BagToSet(inserted' (-) inserted)

\* C29: every page inserted into the bag, fetched or saved has a depth in
\* 0..maxDepth; a step that scans a page, which shows in the pages it adds
\* or in the assertion of pageScan, scans a page of a depth below maxDepth,
\* and the pages it adds are one level deeper than the page scanned
C29_DepthLimit ==
  /\ [](/\ \A p \in BagToSet(inserted) : p.depth \in 0..maxDepth
        /\ \A m \in DOMAIN fetched : fetched[m].depth \in 0..maxDepth
        /\ \A m \in DOMAIN pageDir :
              \E n \in 0..maxDepth : pageDir[m][2] = Digits(n))
  /\ [][(Added # {} \/ cpc' = "assert") =>
          \E p \in Taken :
            /\ Taken = {p}
            /\ p.depth < maxDepth
            /\ fetched' = Append(fetched, p)
            /\ \A q \in Added : q.depth = p.depth + 1]_vars
  /\ [][\A p \in Taken : p.depth >= maxDepth =>
          Added = {} /\ pagesSeen' = pagesSeen /\ cpc' # "assert"]_vars

\* the crawl has ended with a limit of one level: the seed page of depth 0
\* was scanned and gave A.html and B.html at depth 1, which were fetched and
\* saved and, although A.html links to B.html and to another page, not scanned
C29_Witness ==
  /\ cpc = "done"
  /\ maxDepth = 1
  /\ web[SeedURL] = <<"http://cs50tse.cs.dartmouth.edu/tse/A.html",
                      "http://cs50tse.cs.dartmouth.edu/tse/B.html">>
  /\ web["http://cs50tse.cs.dartmouth.edu/tse/A.html"] =
       <<"http://cs50tse.cs.dartmouth.edu/tse/B.html", "http://www.dartmouth.edu/">>
  /\ Len(fetched) = 3
  /\ \A m \in 2..3 : fetched[m].depth = 1 /\ pageDir[m][2] = Digits(1)
  /\ Cardinality(BagToSet(inserted)) = 3

(***************************************************************************)
(* Properties of queryEvaluate: the order of the operands                  *)
(***************************************************************************)
\* the documents that have an entry in the result of queryEvaluate on ts
KeysOf(ts) ==
  LET r == queryEvaluate(heap, index, ts)
  IN counters_keys(r.heap, r.result)

\* C30: on the index of the state, for all words a and b, indexed or not,
\* "a and b" and "b and a" give every document the same score, and so do
\* "a or b" and "b or a"; and the scores the loop has left in result for a
\* query of two operands are those of the query with the operands exchanged
C30_OperandOrder ==
  /\ pc = "print" =>
       \A a, b \in QueryWords :
         /\ ScoresOf(<<a, AND, b>>) = ScoresOf(<<b, AND, a>>)
         /\ ScoresOf(<<a, OR, b>>) = ScoresOf(<<b, OR, a>>)
  /\ (pc = "print" /\ Len(words) = 3 /\ words[2] \in {AND, OR}) =>
       \A d \in AllDocs : Score(d) = ScoresOf(<<words[3], words[2], words[1]>>)[d]

\* "cat and dog" has been evaluated on an index with cat in documents 1 and
\* 2 and dog in document 1 only: document 1 scores the smaller count, the
\* result holds a zero entry for document 2, the result of "dog and cat"
\* holds none
C30_Witness ==
  /\ pc = "print"
  /\ words = <<Cat, AND, Dog>>
  /\ Stored(Cat, 1) = 2
  /\ Stored(Cat, 2) = 1
  /\ Stored(Dog, 1) = 1
  /\ Stored(Dog, 2) = 0
  /\ Score(1) = 1
  /\ Score(2) = 0
  /\ counters_keys(heap, result) = {1, 2}
  /\ KeysOf(<<Dog, AND, Cat>>) = {1}

====
